---------------------------- MODULE Spec2Model ----------------------------
(***************************************************************************)
(* A model of the two example notebooks of tensorflow_constrained_         *)
(* optimization (the recall-constrained example and Fairness_adult) and of *)
(* the library entry points they call.                                     *)
(*                                                                         *)
(* Numbers.  The notebooks compute with floats.  The model computes with   *)
(* exact rationals <<numerator, denominator>> (denominator > 0); errors    *)
(* and violations handed to the candidate selection are integers, i.e.     *)
(* the notebook's values in a fixed unit (hundredths in SpecExample).      *)
(*                                                                         *)
(* Library code.  find_best_candidate_index,                               *)
(* find_best_candidate_distribution, RateMinimizationProblem and           *)
(* ProxyLagrangianOptimizer are imported by the notebooks and their source *)
(* is not among the files modelled here; their definitions below follow    *)
(* the specification's description of them (see MODEL_MAP.json).           *)
(***************************************************************************)
EXTENDS Integers, Sequences, FiniteSets, TLC

(***************************************************************************)
(* Bounds of the model.                                                    *)
(***************************************************************************)
MaxSnapshots == 3
MaxConstraints == 2
MaxErrorValue == 1
MaxViolationValue == 1
MaxRows == 2          \* rows of a data set handed to the metrics
PredictionUnit == 2   \* predictions are multiples of 1 / PredictionUnit
NumExamples == 3      \* examples of the recall example's training set
NumTrainSteps == 2    \* runs of train_op in one training loop
MaxTrainRows == 3     \* rows of the training frame given to training_helper
MaxMinibatchSize == 4 \* the minibatch_size argument
MaxIterationsPerLoop == 2
MaxLoops == 2
NumCalls == 2
MaxWeightDenominator == 2

(***************************************************************************)
(* Integer and rational helpers.                                           *)
(***************************************************************************)
Max(a, b) == IF a >= b THEN a ELSE b
Min(a, b) == IF a <= b THEN a ELSE b
Abs(a) == IF a >= 0 THEN a ELSE -a

RECURSIVE Gcd(_, _)
Gcd(a, b) == IF b = 0 THEN Abs(a) ELSE Gcd(b, a % Abs(b))

RECURSIVE SumTo(_, _)
\* f[1] + ... + f[n]
SumTo(f, n) == IF n = 0 THEN 0 ELSE f[n] + SumTo(f, n - 1)

SumSeq(s) == SumTo(s, Len(s))

RECURSIVE MaxTo(_, _, _)
\* the largest of lo, f[1], ..., f[n]
MaxTo(f, n, lo) == IF n = 0 THEN lo ELSE Max(f[n], MaxTo(f, n - 1, lo))

\* Rationals <<n, d>> with d > 0.  A float division by zero yields <<n, 0>>
\* (nan or inf), which every comparison answers with FALSE.
Rat(n, d) == IF d > 0 THEN <<n, d>> ELSE <<-n, -d>>
RatOfInt(n) == <<n, 1>>
RatNorm(q) == LET g == Gcd(q[1], q[2]) IN IF g = 0 THEN q ELSE <<q[1] \div g, q[2] \div g>>
RatAdd(p, q) == <<p[1] * q[2] + q[1] * p[2], p[2] * q[2]>>
RatSub(p, q) == <<p[1] * q[2] - q[1] * p[2], p[2] * q[2]>>
RatLeq(p, q) == p[2] # 0 /\ q[2] # 0 /\ p[1] * q[2] <= q[1] * p[2]
RatLt(p, q) == p[2] # 0 /\ q[2] # 0 /\ p[1] * q[2] < q[1] * p[2]
RatEq(p, q) == p[2] # 0 /\ q[2] # 0 /\ p[1] * q[2] = q[1] * p[2]

(***************************************************************************)
(* Candidate selection (tfco.find_best_candidate_index and                 *)
(* tfco.find_best_candidate_distribution), over a snapshot sequence:       *)
(* objective_vector[i] is snapshot i's error and constraints_matrix[i] its *)
(* vector of constraint violations.                                        *)
(***************************************************************************)

\* Worst-case violation of each snapshot, clipped at zero: every snapshot
\* whose violations are all <= 0 gets the same value 0.
max_constraints_vector(constraints_matrix) ==
  [i \in 1..Len(constraints_matrix) |->
     MaxTo(constraints_matrix[i], Len(constraints_matrix[i]), 0)]

\* Ascending rank with ties sharing the lowest rank (1 + the number of
\* strictly smaller entries).
rankdata(v) ==
  [i \in 1..Len(v) |-> 1 + Cardinality({k \in 1..Len(v) : v[k] < v[i]})]

\* max(error_rank, violation_rank) of every snapshot.
combined_ranks(objective_vector, constraints_matrix) ==
  LET objective_ranks == rankdata(objective_vector)
      max_constraints_ranks == rankdata(max_constraints_vector(constraints_matrix))
  IN [i \in 1..Len(objective_vector) |->
        Max(objective_ranks[i], max_constraints_ranks[i])]

RECURSIVE best_index_scan(_, _, _, _, _)
\* The scan over the snapshots ii..nn that keeps the first snapshot of the
\* least combined rank whose error is strictly lower than the best so far
\* (best = 0: none yet).
best_index_scan(objective_vector, ranks, min_rank, ii, best) ==
  IF ii > Len(objective_vector) THEN best
  ELSE IF ranks[ii] <= min_rank
          /\ (best = 0 \/ objective_vector[ii] < objective_vector[best])
       THEN best_index_scan(objective_vector, ranks, min_rank, ii + 1, ii)
       ELSE best_index_scan(objective_vector, ranks, min_rank, ii + 1, best)

\* A plausible slip: the combined rank is the smaller of the two ranks.
find_best_candidate_index_min_of_ranks(objective_vector, constraints_matrix) ==
  LET objective_ranks == rankdata(objective_vector)
      max_constraints_ranks == rankdata(max_constraints_vector(constraints_matrix))
      ranks == [i \in 1..Len(objective_vector) |->
                  Min(objective_ranks[i], max_constraints_ranks[i])]
      min_rank == -MaxTo([i \in 1..Len(ranks) |-> -ranks[i]], Len(ranks), -Len(ranks))
  IN best_index_scan(objective_vector, ranks, min_rank, 1, 0) - 1

\* The index (0-based, as in Python) of the best snapshot.
find_best_candidate_index(objective_vector, constraints_matrix) ==
  LET ranks == combined_ranks(objective_vector, constraints_matrix)
      min_rank == -MaxTo([i \in 1..Len(ranks) |-> -ranks[i]], Len(ranks), -Len(ranks))
  IN best_index_scan(objective_vector, ranks, min_rank, 1, 0) - 1


(***************************************************************************)
(* find_best_candidate_distribution.  The distribution sought is feasible  *)
(* in expectation and of least expected error among the distributions p    *)
(* on the snapshots: a linear program over the simplex, every expected     *)
(* violation being <= c, where c is 0 when some distribution is feasible   *)
(* in expectation and otherwise the least worst-case expected violation    *)
(* any distribution achieves.  The solver plays a best-response game for a *)
(* bounded number of iterations.  When the game converges the result is    *)
(* such a distribution, supported on at most (number of constraints + 1)   *)
(* snapshots, and the point mass when exactly one snapshot is feasible     *)
(* with minimal error.  When the iteration budget runs out first, the      *)
(* solver warns (NonConvergenceWarning) and returns the best distribution  *)
(* found, of which only that it is a distribution is known.  Neither the   *)
(* game's update rule nor its stopping criterion is given, so whether a    *)
(* call converges is a free choice here, and the linear program's optimum  *)
(* is computed exactly, from its basic feasible solutions.                 *)
(* Programs are in standard form  A x = rhs, x >= 0,  A given by columns.  *)
(***************************************************************************)

RECURSIVE SortedSeq(_)
SortedSeq(S) ==
  IF S = {} THEN <<>>
  ELSE LET lo == CHOOSE x \in S : \A y \in S : x <= y
       IN <<lo>> \o SortedSeq(S \ {lo})

RECURSIVE Det(_)
\* Determinant of a square matrix (a sequence of rows), by expansion along
\* the first row.
Det(M) ==
  LET n == Len(M)
      Minor(k) == [i \in 1..(n - 1) |->
                     [j \in 1..(n - 1) |-> M[i + 1][IF j < k THEN j ELSE j + 1]]]
  IN IF n = 0 THEN 1
     ELSE IF n = 1 THEN M[1][1]
     ELSE SumTo([k \in 1..n |->
                   IF M[1][k] = 0 THEN 0
                   ELSE (IF k % 2 = 1 THEN 1 ELSE -1) * M[1][k] * Det(Minor(k))], n)

\* The basic solution of A x = rhs for the basis B (a set of column
\* indices), by Cramer's rule: [den |-> d, num |-> n] stands for x = n / d.
\* den = 0 when the columns of B are dependent.
BasicSolution(cols, rhs, B) ==
  LET R == Len(rhs)
      bs == SortedSeq(B)
      M == [i \in 1..R |-> [j \in 1..R |-> cols[bs[j]][i]]]
      d == Det(M)
      Replaced(j) == [i \in 1..R |-> [jj \in 1..R |-> IF jj = j THEN rhs[i] ELSE M[i][jj]]]
      sgn == IF d > 0 THEN 1 ELSE -1
      pos(k) == CHOOSE j \in 1..R : bs[j] = k
  IN [den |-> Abs(d),
      num |-> [k \in 1..Len(cols) |->
                 IF d # 0 /\ k \in B THEN sgn * Det(Replaced(pos(k))) ELSE 0]]

\* The basic feasible solutions of the program: a basis (as many
\* independent columns as the program has rows) whose solution is
\* nonnegative.  The program's optimum is attained at one of them.
BasicFeasibleSolutions(cols, rhs) ==
  LET K == Len(cols)
      Bases == {B \in SUBSET (1..K) : Cardinality(B) = Len(rhs)}
      All == {BasicSolution(cols, rhs, B) : B \in Bases}
  IN {x \in All : x.den # 0 /\ \A k \in 1..K : x.num[k] >= 0}

\* The column of snapshot i at violation level c = cn / cd (rows: the
\* weights sum to 1; sum_i p_i * (v_ij - c) + slack_j = 0 for every j),
\* of the level variable z and of the slack of constraint j.
SnapshotColumn(constraints_matrix, i, cn, cd) ==
  <<1>> \o [j \in 1..Len(constraints_matrix[i]) |-> cd * constraints_matrix[i][j] - cn]
LevelColumn(mm) == <<0>> \o [j \in 1..mm |-> -1]
SlackColumn(mm, j) == <<0>> \o [jj \in 1..mm |-> IF jj = j THEN 1 ELSE 0]
Rhs(mm) == <<1>> \o [j \in 1..mm |-> 0]

\* The least c >= 0 such that some distribution has every expected
\* violation <= c: minimise z subject to sum_i p_i * v_ij - z <= 0.
LeastViolationLevel(constraints_matrix) ==
  LET nn == Len(constraints_matrix)
      mm == Len(constraints_matrix[1])
      cols == [i \in 1..nn |-> SnapshotColumn(constraints_matrix, i, 0, 1)]
              \o <<LevelColumn(mm)>>
              \o [j \in 1..mm |-> SlackColumn(mm, j)]
      sols == BasicFeasibleSolutions(cols, Rhs(mm))
      z(x) == <<x.num[nn + 1], x.den>>
      best == CHOOSE x \in sols : \A y \in sols : RatLeq(z(x), z(y))
  IN RatNorm(z(best))

\* A distribution over nn snapshots as [den, num]: weight i is num[i]/den.
Distribution(x, nn) ==
  LET RECURSIVE GcdTo(_)
      GcdTo(n) == IF n = 0 THEN x.den ELSE Gcd(x.num[n], GcdTo(n - 1))
      gg == GcdTo(nn)
  IN [den |-> x.den \div gg, num |-> [i \in 1..nn |-> x.num[i] \div gg]]

\* np.dot(cand_dist, error_rates_vector), as a rational.
ExpectedValue(dist, values) ==
  <<SumTo([i \in 1..Len(values) |-> dist.num[i] * values[i]], Len(values)), dist.den>>

\* The uniform (T-stochastic) distribution.
UniformDistribution(nn) == [den |-> nn, num |-> [i \in 1..nn |-> 1]]

\* The basic feasible solutions of least expected error among the
\* distributions whose expected violations are all <= c = cn / cd.
BestAtLevel(objective_vector, constraints_matrix, cn, cd) ==
  LET nn == Len(objective_vector)
      mm == Len(constraints_matrix[1])
      cols == [i \in 1..nn |-> SnapshotColumn(constraints_matrix, i, cn, cd)]
              \o [j \in 1..mm |-> SlackColumn(mm, j)]
      sols == BasicFeasibleSolutions(cols, Rhs(mm))
      err(x) == ExpectedValue(x, objective_vector)
  IN {Distribution(x, nn) : x \in {x \in sols : \A y \in sols : RatLeq(err(x), err(y))}}

\* The snapshots a distribution puts weight on.
SupportOf(dist) == {i \in DOMAIN dist.num : dist.num[i] # 0}

\* The weight vectors k / d over nn snapshots, d up to MaxWeightDenominator.
WeightGrid(nn) ==
  UNION {{Distribution([den |-> d, num |-> f], nn) :
            f \in {g \in [1..nn -> 0..d] : SumTo(g, nn) = d}} :
         d \in 1..MaxWeightDenominator}

\* Every expected violation of dist is <= level.
FeasibleInExpectation(dist, constraints_matrix, level) ==
  \A j \in 1..Len(constraints_matrix[1]) :
    RatLeq(ExpectedValue(dist, [i \in 1..Len(constraints_matrix) |->
                                  constraints_matrix[i][j]]),
           level)

\* 0 when some distribution is feasible in expectation, and otherwise the
\* least violation level.
ViolationLevel(objective_vector, constraints_matrix) ==
  IF BestAtLevel(objective_vector, constraints_matrix, 0, 1) # {} THEN <<0, 1>>
  ELSE LeastViolationLevel(constraints_matrix)

\* The snapshot that alone is feasible (all its violations <= 0) and whose
\* error is minimal, if there is one.
OnlyFeasibleWithMinimalError(objective_vector, constraints_matrix) ==
  LET nn == Len(objective_vector)
      feasible(i) == \A j \in 1..Len(constraints_matrix[i]) : constraints_matrix[i][j] <= 0
  IN {k \in 1..nn : /\ \A i \in 1..nn : feasible(i) <=> i = k
                    /\ \A i \in 1..nn : objective_vector[k] <= objective_vector[i]}

\* The distributions the solver's search ranges over: the weight grid, the
\* uniform average the shrinking starts from and the program's optimal
\* basic solutions.
CandidateDistributions(objective_vector, constraints_matrix) ==
  LET nn == Len(objective_vector)
      level == ViolationLevel(objective_vector, constraints_matrix)
  IN WeightGrid(nn) \cup {UniformDistribution(nn)}
       \cup BestAtLevel(objective_vector, constraints_matrix, level[1], level[2])

\* The results of a converged game: feasible in expectation (at the least
\* violation level when no distribution is feasible), of least expected
\* error, supported on at most (number of constraints + 1) snapshots, and
\* the point mass on the snapshot that alone is feasible with minimal error.
ConvergedDistributions(objective_vector, constraints_matrix) ==
  LET nn == Len(objective_vector)
      mm == Len(constraints_matrix[1])
      level == ViolationLevel(objective_vector, constraints_matrix)
      optimum == ExpectedValue(
                   CHOOSE x \in BestAtLevel(objective_vector, constraints_matrix,
                                            level[1], level[2]) : TRUE,
                   objective_vector)
      only == OnlyFeasibleWithMinimalError(objective_vector, constraints_matrix)
  IN {dist \in CandidateDistributions(objective_vector, constraints_matrix) :
        /\ FeasibleInExpectation(dist, constraints_matrix, level)
        /\ RatEq(ExpectedValue(dist, objective_vector), optimum)
        /\ Cardinality(SupportOf(dist)) <= mm + 1
        /\ \A k \in only : SupportOf(dist) = {k}}

\* What a call may return: a converged result without a warning, or, the
\* iteration budget exhausted, some distribution with the warning.
find_best_candidate_distribution(objective_vector, constraints_matrix) ==
  {[distribution |-> dist, warning |-> ""] :
     dist \in ConvergedDistributions(objective_vector, constraints_matrix)}
  \cup
  {[distribution |-> dist, warning |-> "NonConvergenceWarning"] :
     dist \in CandidateDistributions(objective_vector, constraints_matrix)}

(***************************************************************************)
(* The recall example's hand-written problem.  labels and predictions are  *)
(* sequences over the examples; labels are 0 or 1 and a prediction p       *)
(* stands for the float p / PredictionUnit.                                *)
(***************************************************************************)

\* tf.to_float(predictions > 0)
to_float_positive(p) == IF p > 0 THEN 1 ELSE 0

\* A plausible slip: the true positives as a share of all the examples.
ExampleProblem_constraints_by_examples(labels, predictions, bound) ==
  LET true_positives == [i \in 1..Len(labels) |->
                           labels[i] * to_float_positive(predictions[i])]
      true_positive_count == SumSeq(true_positives)
      recall_value == <<true_positive_count, Len(labels)>>
  IN RatSub(bound, recall_value)

\* ExampleProblem.constraints: recall_lower_bound - recall, recall being the
\* share of the positively labelled examples with a prediction > 0.
ExampleProblem_constraints(labels, predictions, bound) ==
  LET true_positives == [i \in 1..Len(labels) |->
                           labels[i] * to_float_positive(predictions[i])]
      true_positive_count == SumSeq(true_positives)
      positive_count == SumSeq(labels)
      recall_value == <<true_positive_count, positive_count>>
  IN RatSub(bound, recall_value)

\* A plausible slip: the prediction itself, not capped at 1.0.
ExampleProblem_proxy_constraints_uncapped(labels, predictions, bound) ==
  LET true_positives == [i \in 1..Len(labels) |-> labels[i] * predictions[i]]
      true_positive_count == SumSeq(true_positives)
      positive_count == SumSeq(labels)
      recall_value == <<true_positive_count, PredictionUnit * positive_count>>
  IN RatSub(bound, recall_value)

\* ExampleProblem.proxy_constraints: the same with min(1.0, prediction) in
\* place of the indicator.
ExampleProblem_proxy_constraints(labels, predictions, bound) ==
  LET true_positives == [i \in 1..Len(labels) |->
                           labels[i] * Min(PredictionUnit, predictions[i])]
      true_positive_count == SumSeq(true_positives)
      positive_count == SumSeq(labels)
      recall_value == <<true_positive_count, PredictionUnit * positive_count>>
  IN RatSub(bound, recall_value)

\* A plausible slip: a prediction of 0 taken as positive.
recall_nonnegative(labels, predictions) ==
  LET positive_count == SumSeq(labels)
      true_positives == [i \in 1..Len(labels) |->
                           labels[i] * (IF predictions[i] >= 0 THEN 1 ELSE 0)]
      true_positive_count == SumSeq(true_positives)
  IN <<true_positive_count, positive_count>>

\* recall (numpy): true_positive_count / positive_count.  The operands are
\* numpy floats, so 0 / 0 is nan (den = 0) with a RuntimeWarning, no error.
recall(labels, predictions) ==
  LET positive_count == SumSeq(labels)
      true_positives == [i \in 1..Len(labels) |->
                           labels[i] * to_float_positive(predictions[i])]
      true_positive_count == SumSeq(true_positives)
  IN <<true_positive_count, positive_count>>

(***************************************************************************)
(* Fairness_adult's evaluation helpers.  A data frame is a sequence of     *)
(* rows, a row a record of its columns; the protected columns are the 0/1  *)
(* indicator columns binarize_categorical_columns makes of gender, race.   *)
(***************************************************************************)
LABEL_COLUMN == "label"
PROTECTED_COLUMNS == <<"gender_Female", "gender_Male", "race_White", "race_Black">>

\* The columns of a frame.
Columns(df) == IF df = <<>> THEN {} ELSE DOMAIN df[1]

\* The name pd.get_dummies gives the indicator column of a value.
DummyColumn ==
  [gender |-> [Female |-> "gender_Female", Male |-> "gender_Male"],
   race |-> [White |-> "race_White", Black |-> "race_Black", Other |-> "race_Other"]]

\* pd.get_dummies(df, columns=categorical_columns): each categorical column
\* is replaced by one 0/1 column for every value that occurs in the frame.
get_dummies(df, categorical_columns) ==
  LET kept == Columns(df) \ categorical_columns
      dummies == {DummyColumn[c][df[i][c]] : c \in categorical_columns, i \in 1..Len(df)}
  IN [i \in 1..Len(df) |->
        [c \in kept \cup dummies |->
           IF c \in kept THEN df[i][c]
           ELSE IF \E cc \in categorical_columns : DummyColumn[cc][df[i][cc]] = c
                THEN 1 ELSE 0]]

\* input_df[c] = 0
SetColumn(df, c) ==
  [i \in 1..Len(df) |-> [cc \in DOMAIN df[i] \cup {c} |-> IF cc = c THEN 0 ELSE df[i][cc]]]

\* fix_columns, as a function of the two frames (the order in which the
\* sets are visited does not change the outcome): the test frame gets the
\* columns it lacks; train_df_missing_cols is bound only inside the first
\* loop; the train frame is indexed by the test frame's columns right after
\* its first missing column is added.
fix_columns(input_train_df, input_test_df) ==
  LET test_df_missing_cols == Columns(input_train_df) \ Columns(input_test_df)
      train_df_missing_cols == Columns(input_test_df) \ Columns(input_train_df)
      fixed_test == [i \in 1..Len(input_test_df) |->
                       [c \in Columns(input_test_df) \cup test_df_missing_cols |->
                          IF c \in Columns(input_test_df) THEN input_test_df[i][c] ELSE 0]]
  IN IF test_df_missing_cols = {} THEN [raised |-> "UnboundLocalError"]
     ELSE IF Cardinality(train_df_missing_cols) > 1 THEN [raised |-> "KeyError"]
     ELSE [raised |-> "",
           train |-> IF train_df_missing_cols = {} THEN input_train_df
                     ELSE SetColumn(input_train_df, CHOOSE c \in train_df_missing_cols : TRUE),
           test |-> fixed_test]

\* binarize_categorical_columns
binarize_categorical_columns(input_train_df, input_test_df, categorical_columns) ==
  fix_columns(get_dummies(input_train_df, categorical_columns),
              get_dummies(input_test_df, categorical_columns))

\* df[name]
Column(df, name) == [i \in 1..Len(df) |-> df[i][name]]

\* error_rate: the share of rows with signed_label * prediction <= 0.
error_rate(predictions, labels) ==
  LET signed_labels == [i \in 1..Len(labels) |->
                          (IF labels[i] > 0 THEN 1 ELSE 0)
                          - (IF labels[i] <= 0 THEN 1 ELSE 0)]
      numerator == Cardinality({i \in 1..Len(predictions) :
                                  signed_labels[i] * predictions[i] <= 0})
      denominator == Len(predictions)
  IN <<numerator, denominator>>

\* positive_prediction_rate: among the rows of the subset, the share with a
\* prediction > 0; float(numerator) / float(0) raises ZeroDivisionError.
positive_prediction_rate(predictions, subset) ==
  LET numerator == SumSeq([i \in 1..Len(predictions) |->
                             (IF predictions[i] > 0 THEN 1 ELSE 0)
                             * (IF subset[i] > 0 THEN 1 ELSE 0)])
      denominator == Cardinality({i \in 1..Len(subset) : subset[i] > 0})
  IN IF denominator = 0 THEN [raised |-> "ZeroDivisionError"]
     ELSE [raised |-> "", value |-> <<numerator, denominator>>]

\* tpr: among the rows labelled positive, the share with a prediction >= 0.
tpr(df) ==
  LET fp == Cardinality({i \in 1..Len(df) :
                           df[i].predictions >= 0 /\ 2 * df[i][LABEL_COLUMN] > 1})
      ln == Cardinality({i \in 1..Len(df) : 2 * df[i][LABEL_COLUMN] > 1})
  IN <<fp, ln>>

\* df[df[protected_attribute] > 0.5]
Subset(df, protected_attribute) ==
  SelectSeq(df, LAMBDA row : 2 * row[protected_attribute] > 1)

\* A plausible slip: the group's rate and the bound swapped.
_get_error_rate_and_constraints_flipped(df, tpr_max_diff) ==
  LET error_rate_local == error_rate(Column(df, "predictions"), Column(df, LABEL_COLUMN))
      overall_tpr == tpr(df)
      present == {k \in 1..Len(PROTECTED_COLUMNS) : PROTECTED_COLUMNS[k] \in Columns(df)}
      group_tpr == [k \in 1..Len(PROTECTED_COLUMNS) |->
                      IF k \in present THEN tpr(Subset(df, PROTECTED_COLUMNS[k]))
                      ELSE <<0, 0>>]
      failing == {k \in 1..Len(PROTECTED_COLUMNS) : group_tpr[k][2] = 0}
      first == CHOOSE k \in failing : \A kk \in failing : k <= kk
  IN IF error_rate_local[2] = 0 \/ overall_tpr[2] = 0
     THEN [raised |-> "ZeroDivisionError"]
     ELSE IF failing # {}
     THEN [raised |-> IF first \in present THEN "ZeroDivisionError" ELSE "KeyError"]
     ELSE [raised |-> "",
           error_rate |-> error_rate_local,
           constraints |-> [k \in 1..Len(PROTECTED_COLUMNS) |->
                              RatSub(group_tpr[k], RatSub(overall_tpr, tpr_max_diff))]]

\* _get_error_rate_and_constraints: the error rate and, per protected
\* column, (overall_tpr - tpr_max_diff) - tpr(group).  A float(..)/float(0)
\* raises ZeroDivisionError, df[protected_attribute] on a frame without the
\* column raises KeyError; the groups are computed in order, so the first
\* group that fails decides.
_get_error_rate_and_constraints(df, tpr_max_diff) ==
  LET error_rate_local == error_rate(Column(df, "predictions"), Column(df, LABEL_COLUMN))
      overall_tpr == tpr(df)
      present == {k \in 1..Len(PROTECTED_COLUMNS) : PROTECTED_COLUMNS[k] \in Columns(df)}
      group_tpr == [k \in 1..Len(PROTECTED_COLUMNS) |->
                      IF k \in present THEN tpr(Subset(df, PROTECTED_COLUMNS[k]))
                      ELSE <<0, 0>>]
      failing == {k \in 1..Len(PROTECTED_COLUMNS) : group_tpr[k][2] = 0}
      first == CHOOSE k \in failing : \A kk \in failing : k <= kk
  IN IF error_rate_local[2] = 0 \/ overall_tpr[2] = 0
     THEN [raised |-> "ZeroDivisionError"]
     ELSE IF failing # {}
     THEN [raised |-> IF first \in present THEN "ZeroDivisionError" ELSE "KeyError"]
     ELSE [raised |-> "",
           error_rate |-> error_rate_local,
           constraints |-> [k \in 1..Len(PROTECTED_COLUMNS) |->
                              RatSub(RatSub(overall_tpr, tpr_max_diff), group_tpr[k])]]

(***************************************************************************)
(* Minimization problems.  A constraint vector is described entry by       *)
(* entry: the constraint the entry was declared for and the loss that      *)
(* measures it (the zero-one indicator, or its hinge surrogate).           *)
(***************************************************************************)
recall_lower_bound == <<9, 10>>
tpr_max_diff_of_notebook == <<1, 20>>

\* ExampleProblem.__init__
ExampleProblem(labels_arg, recall_lower_bound_arg) ==
  [class |-> "ExampleProblem",
   labels |-> labels_arg,
   recall_lower_bound |-> recall_lower_bound_arg,
   positive_count |-> SumSeq(labels_arg)]

\* tfco.RateMinimizationProblem(objective, constraints)
RateMinimizationProblem(objective_arg, constraints_arg) ==
  [class |-> "RateMinimizationProblem",
   objective |-> objective_arg,
   constraints |-> constraints_arg]

\* problem.constraints: one entry per declared constraint, in their order.
\* ExampleProblem's one entry is recall_lower_bound minus a sum over the
\* rows its label mask selects, divided by its positive count.
constraints_vector(problem) ==
  IF problem.class = "ExampleProblem"
  THEN <<[declared |-> [rate |-> "recall", mask |-> problem.labels,
                        denominator |-> problem.positive_count,
                        geq |-> problem.recall_lower_bound],
          loss |-> "zero_one"]>>
  ELSE [i \in 1..Len(problem.constraints) |->
          [declared |-> problem.constraints[i], loss |-> "zero_one"]]

\* problem.proxy_constraints
proxy_constraints_vector(problem) ==
  IF problem.class = "ExampleProblem"
  THEN <<[declared |-> [rate |-> "recall", mask |-> problem.labels,
                        denominator |-> problem.positive_count,
                        geq |-> problem.recall_lower_bound],
          loss |-> "hinge"]>>
  ELSE [i \in 1..Len(problem.constraints) |->
          [declared |-> problem.constraints[i], loss |-> "hinge"]]

\* Model.__init__: the placeholders, one per protected column, and the
\* linear layer (its variables are named after the layer).
Model(tpr_max_diff_arg, layer) ==
  [tpr_max_diff |-> tpr_max_diff_arg,
   protected_placeholders |-> [k \in 1..Len(PROTECTED_COLUMNS) |->
                                 [placeholder |-> PROTECTED_COLUMNS[k]]],
   predictions_tensor |-> layer]

\* Model.build_train_op, the constraint list: per protected placeholder,
\* slice_tpr >= overall_tpr - tpr_max_diff; empty when unconstrained.
build_train_op_constraints(self, unconstrained) ==
  IF unconstrained THEN <<>>
  ELSE [k \in 1..Len(self.protected_placeholders) |->
          [rate |-> "positive_prediction_rate",
           subset |-> <<self.protected_placeholders[k], "labels_placeholder">>,
           geq |-> [rate |-> "overall_tpr", minus |-> self.tpr_max_diff]]]

\* A feed dict: the set of its (placeholder, value) items.
features_placeholder == [placeholder |-> "features"]
labels_placeholder == [placeholder |-> LABEL_COLUMN]

\* A plausible slip: the protected columns taken in the reverse order.
feed_dict_helper_reversed(self, dataframe) ==
  {[key |-> features_placeholder, value |-> Column(dataframe, "feature")],
   [key |-> labels_placeholder, value |-> Column(dataframe, LABEL_COLUMN)]}
  \cup {[key |-> self.protected_placeholders[i],
         value |-> Column(dataframe,
                          PROTECTED_COLUMNS[Len(PROTECTED_COLUMNS) + 1 - i])] :
          i \in 1..Len(PROTECTED_COLUMNS)}

\* Model.feed_dict_helper: the features, the label column, and for each i
\* protected_placeholders[i] fed with the column PROTECTED_COLUMNS[i].
feed_dict_helper(self, dataframe) ==
  {[key |-> features_placeholder, value |-> Column(dataframe, "feature")],
   [key |-> labels_placeholder, value |-> Column(dataframe, LABEL_COLUMN)]}
  \cup {[key |-> self.protected_placeholders[i],
         value |-> Column(dataframe, PROTECTED_COLUMNS[i])] :
          i \in 1..Len(PROTECTED_COLUMNS)}

(***************************************************************************)
(* What one evaluation of a problem's tensors yields: the gradient of the  *)
(* proxy objective and of every proxy constraint with respect to the       *)
(* model parameters, and the values of the proxy and true constraints.     *)
(***************************************************************************)
Sign(n) == IF n > 0 THEN 1 ELSE IF n < 0 THEN -1 ELSE 0

\* predictions = tf.tensordot(constant_features, weights) - threshold,
\* for one feature per example.
predictions_of(features_arg, parameters_arg) ==
  [i \in 1..Len(features_arg) |->
     features_arg[i] * parameters_arg.weights - parameters_arg.threshold]

\* The gradient of tf.losses.hinge_loss(labels, logits=predictions), the mean
\* of max(0, 1 - signed_label * prediction).
objective_gradient(labels_arg, features_arg, preds) ==
  LET n == Len(labels_arg)
      signed(i) == 2 * labels_arg[i] - 1
      active(i) == IF signed(i) * preds[i] < PredictionUnit THEN 1 ELSE 0
  IN [weights |-> <<SumTo([i \in 1..n |-> -(active(i) * signed(i) * features_arg[i])], n), n>>,
      threshold |-> <<SumTo([i \in 1..n |-> active(i) * signed(i)], n), n>>]

\* The gradient of ExampleProblem.proxy_constraints.
proxy_constraints_gradient(labels_arg, features_arg, preds) ==
  LET n == Len(labels_arg)
      active(i) == IF preds[i] < PredictionUnit THEN 1 ELSE 0
      positive_count == SumSeq(labels_arg)
  IN [weights |-> <<SumTo([i \in 1..n |-> -(labels_arg[i] * active(i) * features_arg[i])], n),
                    positive_count>>,
      threshold |-> <<SumTo([i \in 1..n |-> labels_arg[i] * active(i)], n), positive_count>>]

EvaluateExampleProblem(problem, features_arg, parameters_arg) ==
  LET preds == predictions_of(features_arg, parameters_arg)
  IN [objective_grad |-> objective_gradient(problem.labels, features_arg, preds),
      proxy_grads |-> <<proxy_constraints_gradient(problem.labels, features_arg, preds)>>,
      proxy_constraints |->
        <<ExampleProblem_proxy_constraints(problem.labels, preds, problem.recall_lower_bound)>>,
      constraints |->
        <<ExampleProblem_constraints(problem.labels, preds, problem.recall_lower_bound)>>]

\* The evaluations of a RateMinimizationProblem on a minibatch.  Neither
\* the minibatch nor the features are modelled: the gradients point either
\* way and the constraints, and their proxies, are all met, all violated,
\* or only the first is violated.
ViolationPatterns(mm) ==
  {[j \in 1..mm |-> <<-1, 1>>], [j \in 1..mm |-> <<1, 1>>],
   [j \in 1..mm |-> IF j = 1 THEN <<1, 1>> ELSE <<-1, 1>>]}

EvaluateRateProblem(problem, layer) ==
  LET mm == Len(problem.constraints)
  IN {[objective_grad |-> (layer :> <<g, 1>>),
       proxy_grads |-> [j \in 1..mm |-> (layer :> <<h, 1>>)],
       proxy_constraints |-> pc,
       constraints |-> c] :
        g \in {-1, 1}, h \in {-1, 1},
        pc \in ViolationPatterns(mm), c \in ViolationPatterns(mm)}

(***************************************************************************)
(* Optimizers.  A ProxyLagrangianOptimizer keeps one multiplier per        *)
(* constraint in a state variable of the graph; its train_op evaluates     *)
(* the gradients, lets the wrapped optimizer update the model parameters   *)
(* and then updates the multipliers.  The wrapped optimizer's step is one  *)
(* unit against the sign of the gradient.                                  *)
(***************************************************************************)
RECURSIVE RatSumTo(_, _)
RatSumTo(f, n) == IF n = 0 THEN <<0, 1>> ELSE RatAdd(f[n], RatSumTo(f, n - 1))

RatScale(k, q) == <<k * q[1], q[2]>>

\* A plausible slip: the multiplier update runs before the parameter update.
TrainOpPhases_multipliers_first(op) ==
  IF op.class = "ProxyLagrangianOptimizer"
  THEN <<"gradients", "multipliers", "parameters">>
  ELSE <<"gradients", "parameters">>

\* The steps of one run of a train_op, in their order.
TrainOpPhases(op) ==
  IF op.class = "ProxyLagrangianOptimizer"
  THEN <<"gradients", "parameters", "multipliers">>
  ELSE <<"gradients", "parameters">>

\* A plausible slip: a constraint's proxy is weighted by its multiplier only
\* while the true constraint is violated.
ParameterGradient_while_violated(ev, lambda) ==
  [v \in DOMAIN ev.objective_grad |->
     RatAdd(ev.objective_grad[v],
            RatSumTo([j \in 1..Len(lambda) |->
                        IF ev.constraints[j][1] > 0
                        THEN RatScale(lambda[j], ev.proxy_grads[j][v])
                        ELSE <<0, 1>>], Len(lambda)))]

\* The gradient the parameters descend along: that of the proxy objective
\* plus every proxy constraint's, weighted by its multiplier.
ParameterGradient(ev, lambda) ==
  [v \in DOMAIN ev.objective_grad |->
     RatAdd(ev.objective_grad[v],
            RatSumTo([j \in 1..Len(lambda) |->
                        RatScale(lambda[j], ev.proxy_grads[j][v])], Len(lambda)))]

\* The wrapped optimizer's update of the variables in var_list.
ApplyGradients(parameters_arg, gradient, var_list) ==
  [v \in DOMAIN parameters_arg |->
     IF v \in var_list /\ v \in DOMAIN gradient
     THEN parameters_arg[v] - Sign(gradient[v][1])
     ELSE parameters_arg[v]]

\* A plausible slip: the multipliers follow the proxy constraints.
MultiplierUpdate_from_proxy(lambda, ev) ==
  [j \in 1..Len(lambda) |-> Max(0, lambda[j] + Sign(ev.proxy_constraints[j][1]))]

\* The multipliers' update: up where the true constraint is violated, down
\* (not below 0) where it holds with room.
MultiplierUpdate(lambda, ev) ==
  [j \in 1..Len(lambda) |-> Max(0, lambda[j] + Sign(ev.constraints[j][1]))]

\* A plausible slip: every optimizer finds the state variable of the first.
StateVariable_shared(optimizer_id) == 1

\* The state variable minimize() creates for the optimizer: its own.
StateVariable(optimizer_id) == optimizer_id

\* A plausible slip: the earlier session is kept and reused.
Session_reused(run_arg) == Max(run_arg, 1)

\* tf.Session(): a new session, with no variable initialized.
Session(run_arg) == run_arg + 1

(***************************************************************************)
(* Fairness_adult, the candidate cells: the best iterate (cell 10), the    *)
(* T-stochastic solution (cell 11), the m-stochastic solution (cell 12)    *)
(* and its evaluation (cell 13), run in the notebook's order on the        *)
(* errors and violations training_helper returned.                         *)
(***************************************************************************)
VARIABLES
  train_errors,       \* one error per epoch
  train_violations,   \* one violation vector per epoch
  best_cand_index,    \* cell 10's result, None before
  t_stoch,            \* cell 11's printed pair, None before
  cand_dist,          \* cell 12's result, None before
  cand_warning,       \* the warning cell 12's call emitted, "" for none
  m_stoch,            \* cell 13's pair, None before
  cand_pc             \* the next candidate cell to run

candVars == <<train_errors, train_violations, best_cand_index, t_stoch,
              cand_dist, cand_warning, m_stoch, cand_pc>>

\* The evaluation of a problem or of a data frame on given inputs.
VARIABLES
  eval_df,            \* the rows: labels, predictions, protected columns
  eval_bound,         \* recall_lower_bound, or tpr_max_diff
  eval_result,        \* what the evaluation returned, None before
  eval_pc             \* "problem", "fairness", then "..._done"

evalVars == <<eval_df, eval_bound, eval_result, eval_pc>>

\* The notebooks' training cells.
VARIABLES
  notebook,           \* "recall" or "fairness"
  cell,               \* the notebook cell being run
  nb_pc,              \* the next statement of the cell
  labels,             \* the recall example's labels
  features,           \* the recall example's features
  parameters,         \* the graph's model variables: name -> value
  problem,            \* the minimization problem built last
  model,              \* Fairness_adult's `model`
  optimizers,         \* the optimizer instances created so far
  train_op,           \* the op `train_op` names
  multipliers,        \* state variable -> the multipliers it holds
  evaluation,         \* the tensors evaluated by the running train_op
  phases_run,         \* the steps the latest run of train_op has performed
  ii,                 \* the training loop's counter
  run,                \* the number of sessions opened
  trained,            \* the parameters read back after a loop
  updates,            \* history: which optimizer updated which variable
  state_accesses,     \* history: which optimizer read or wrote which state
  resets              \* history: what set a state to its initial value

nbVars == <<notebook, cell, nb_pc, labels, features, parameters, problem, model,
            optimizers, train_op, multipliers, evaluation, phases_run, ii, run,
            trained, updates, state_accesses, resets>>

\* One call of training_helper, which drives training_generator.
VARIABLES
  train_df,                  \* the training rows (with 'predictions' once set)
  test_df,                   \* the test rows
  gen_args,                  \* minibatch_size, num_iterations_per_loop, num_loops as passed
  num_rows,                  \* train_df.shape[0]
  minibatch_size,            \* min(minibatch_size, num_rows)
  permutation,               \* the shuffled list of row numbers, 0-based values
  kernel,                    \* the linear model's weight in the session
  bias,                      \* the linear model's bias in the session
  minibatch_start_index,
  minibatch_indices,
  loop_n,                    \* the outer loop's counter n
  iteration,                 \* the inner for loop's counter
  yielded,                   \* the (train_predictions, test_predictions) pairs yielded
  train_error_rate_vector,
  train_constraints_matrix,
  test_error_rate_vector,
  test_constraints_matrix,
  helper_result,             \* what training_helper returned or raised
  fed,                       \* history: the minibatches fed to train_op
  random_state,              \* the state of the `random` module's generator
  mersenne,                  \* what random.shuffle has produced, by state
  earlier_fed,               \* history: what the earlier calls fed
  gen_pc                     \* the next statement of the generator or the helper

genVars == <<train_df, test_df, gen_args, num_rows, minibatch_size, permutation,
             kernel, bias, minibatch_start_index, minibatch_indices, loop_n,
             iteration, yielded, train_error_rate_vector, train_constraints_matrix,
             test_error_rate_vector, test_constraints_matrix, helper_result,
             fed, random_state, mersenne, earlier_fed, gen_pc>>

\* One call of fix_columns inside binarize_categorical_columns.
VARIABLES
  train_columns,             \* input_train_df.columns, in order
  test_columns,              \* input_test_df.columns, in order
  test_df_missing_cols,      \* the part of the set the first loop has not visited
  train_df_missing_cols,     \* the local of that name: unbound, or a set and
                             \* the part of it the second loop has not visited
  fix_result,                \* what fix_columns returned or raised
  fix_pc                     \* the next statement of fix_columns

fixVars == <<train_columns, test_columns, test_df_missing_cols,
             train_df_missing_cols, fix_result, fix_pc>>

vars == <<candVars, evalVars, nbVars, genVars, fixVars>>

None == "None"

\* The example of the specification's testable properties, in hundredths:
\* errors [0.1, 0.2, 0.05], violations [[0.0], [-0.01], [0.2]].
SpecExample == [errors |-> <<10, 20, 5>>, violations |-> <<<<0>>, <<-1>>, <<20>>>>]

SnapshotInputs(max_n, max_m) ==
  {SpecExample} \cup
  UNION {UNION {
     {[errors |-> e, violations |-> v] :
        e \in [1..nn -> 0..MaxErrorValue],
        v \in [1..nn -> [1..mm -> (-MaxViolationValue)..MaxViolationValue]]}
     : mm \in 1..max_m} : nn \in 1..max_n}

\* A plausible slip: np.sum in place of np.dot, the weights are dropped.
_get_exp_error_rate_constraints_unweighted(dist, error_rates_vector, constraints_matrix) ==
  [error |-> <<SumSeq(error_rates_vector), 1>>,
   violations |-> [j \in 1..Len(constraints_matrix[1]) |->
                     <<SumTo([i \in 1..Len(constraints_matrix) |->
                                constraints_matrix[i][j]], Len(constraints_matrix)), 1>>]]

\* _get_exp_error_rate_constraints: (np.dot(cand_dist, errors),
\* np.matmul(cand_dist, violations)).
_get_exp_error_rate_constraints(dist, error_rates_vector, constraints_matrix) ==
  [error |-> ExpectedValue(dist, error_rates_vector),
   violations |-> [j \in 1..Len(constraints_matrix[1]) |->
                     ExpectedValue(dist, [i \in 1..Len(constraints_matrix) |->
                                            constraints_matrix[i][j]])]]

RECURSIVE RatMaxTo(_, _)
\* max(...) of a non-empty sequence of rationals
RatMaxTo(f, n) ==
  IF n = 1 THEN f[1]
  ELSE LET rest == RatMaxTo(f, n - 1) IN IF RatLeq(rest, f[n]) THEN f[n] ELSE rest

\* No evaluation is set up / no candidate cell / no notebook is running.
NoTrainOp == [optimizer |-> 0, class |-> "", state |-> 0, loss |-> "", var_list |-> {}]
NoEvaluation == [objective_grad |-> <<>>, proxy_grads |-> <<>>,
                 proxy_constraints |-> <<>>, constraints |-> <<>>]
NoProblem == [class |-> "", constraints |-> <<>>]
NoModel == [tpr_max_diff |-> <<0, 1>>, protected_placeholders |-> <<>>,
            predictions_tensor |-> ""]

EvalOff ==
  /\ eval_df = <<>>
  /\ eval_bound = <<0, 1>>
  /\ eval_result = None
  /\ eval_pc = "off"

CandOff ==
  /\ train_errors = <<>>
  /\ train_violations = <<>>
  /\ best_cand_index = None
  /\ t_stoch = None
  /\ cand_dist = None
  /\ cand_warning = ""
  /\ m_stoch = None
  /\ cand_pc = "off"

NotebookOff ==
  /\ notebook = "off"
  /\ cell = 0
  /\ nb_pc = "off"
  /\ labels = <<>>
  /\ features = <<>>
  /\ parameters = <<>>
  /\ problem = NoProblem
  /\ model = NoModel
  /\ optimizers = <<>>
  /\ train_op = NoTrainOp
  /\ multipliers = <<>>
  /\ evaluation = NoEvaluation
  /\ phases_run = <<>>
  /\ ii = 0
  /\ run = 0
  /\ trained = <<>>
  /\ updates = {}
  /\ state_accesses = {}
  /\ resets = {}

Unbound == [bound |-> FALSE, value |-> {}, left |-> {}]
NoResult == [raised |-> None]

GeneratorOff ==
  /\ train_df = <<>>
  /\ test_df = <<>>
  /\ gen_args = [minibatch_size |-> 0, num_iterations_per_loop |-> 0, num_loops |-> 0]
  /\ num_rows = 0
  /\ minibatch_size = 0
  /\ permutation = <<>>
  /\ kernel = 0
  /\ bias = 0
  /\ minibatch_start_index = 0
  /\ minibatch_indices = <<>>
  /\ loop_n = 0
  /\ iteration = 0
  /\ yielded = <<>>
  /\ train_error_rate_vector = <<>>
  /\ train_constraints_matrix = <<>>
  /\ test_error_rate_vector = <<>>
  /\ test_constraints_matrix = <<>>
  /\ helper_result = NoResult
  /\ fed = <<>>
  /\ random_state = <<0, 0>>
  /\ mersenne = <<>>
  /\ earlier_fed = <<>>
  /\ gen_pc = "off"

FixColumnsOff ==
  /\ train_columns = <<>>
  /\ test_columns = <<>>
  /\ test_df_missing_cols = {}
  /\ train_df_missing_cols = Unbound
  /\ fix_result = NoResult
  /\ fix_pc = "off"

CandInit ==
  /\ EvalOff
  /\ NotebookOff
  /\ GeneratorOff
  /\ FixColumnsOff
  /\ \E in \in SnapshotInputs(MaxSnapshots, MaxConstraints) :
        /\ train_errors = in.errors
        /\ train_violations = in.violations
  /\ best_cand_index = None
  /\ t_stoch = None
  /\ cand_dist = None
  /\ cand_warning = ""
  /\ m_stoch = None
  /\ cand_pc = "cell10"

\* best_cand_index = tfco.find_best_candidate_index(train_errors, train_violations)
BestIterateCell ==
  /\ cand_pc = "cell10"
  /\ best_cand_index' = find_best_candidate_index(train_errors, train_violations)
  /\ cand_pc' = "cell11"
  /\ UNCHANGED <<train_errors, train_violations, t_stoch, cand_dist, cand_warning, m_stoch>>
  /\ UNCHANGED <<evalVars, nbVars, genVars, fixVars>>

\* np.mean(train_errors), max(np.mean(train_violations, axis=0))
TStochasticCell ==
  /\ cand_pc = "cell11"
  /\ LET nn == Len(train_errors)
         mm == Len(train_violations[1])
         means == [j \in 1..mm |->
                     <<SumTo([i \in 1..nn |-> train_violations[i][j]], nn), nn>>]
     IN t_stoch' = [error |-> <<SumSeq(train_errors), nn>>,
                    violation |-> RatMaxTo(means, mm)]
  /\ cand_pc' = "cell12"
  /\ UNCHANGED <<train_errors, train_violations, best_cand_index, cand_dist, cand_warning, m_stoch>>
  /\ UNCHANGED <<evalVars, nbVars, genVars, fixVars>>

\* cand_dist = tfco.find_best_candidate_distribution(train_errors, train_violations)
MStochasticCell ==
  /\ cand_pc = "cell12"
  /\ \E result \in find_best_candidate_distribution(train_errors, train_violations) :
        /\ cand_dist' = result.distribution
        /\ cand_warning' = result.warning
  /\ cand_pc' = "cell13"
  /\ UNCHANGED <<train_errors, train_violations, best_cand_index, t_stoch, m_stoch>>
  /\ UNCHANGED <<evalVars, nbVars, genVars, fixVars>>

\* m_stoch_error_train, m_stoch_violations_train =
\*   _get_exp_error_rate_constraints(cand_dist, train_errors, train_violations)
MStochasticEvalCell ==
  /\ cand_pc = "cell13"
  /\ LET r == _get_exp_error_rate_constraints(cand_dist, train_errors, train_violations)
     IN m_stoch' = [error |-> r.error,
                    violations |-> r.violations,
                    violation |-> RatMaxTo(r.violations, Len(r.violations))]
  /\ cand_pc' = "done"
  /\ UNCHANGED <<train_errors, train_violations, best_cand_index, t_stoch, cand_dist, cand_warning>>
  /\ UNCHANGED <<evalVars, nbVars, genVars, fixVars>>

CandNext == BestIterateCell \/ TStochasticCell \/ MStochasticCell \/ MStochasticEvalCell

SpecCandidates == CandInit /\ [][CandNext]_vars

\* The best-iterate cell alone, on every snapshot sequence of the bounds.
SpecBestIterate == CandInit /\ [][BestIterateCell]_vars

(***************************************************************************)
(* The evaluations on their own, on every small data set: the recall       *)
(* example's problem on labels and predictions, Fairness_adult's           *)
(* _get_error_rate_and_constraints on a data frame with predictions.       *)
(***************************************************************************)
PredictionValues == (-1)..(PredictionUnit + 1)
RecallBounds == {recall_lower_bound, <<1, 2>>}
TprMaxDiffs == {<<0, 1>>, tpr_max_diff_of_notebook}

RecallRows == {[label |-> l, predictions |-> p] : l \in {0, 1}, p \in PredictionValues}
\* The rows before binarization, and the frames get_data binarizes: a train
\* frame (with the predictions the evaluation will read) and a test frame.
RawRows ==
  {[label |-> l, predictions |-> p, gender |-> g, race |-> r] :
     l \in {0, 1}, p \in {-1, 0, 1},
     g \in {"Female", "Male"}, r \in {"White", "Black", "Other"}}
RawTestFrames ==
  {<<[label |-> 0, predictions |-> 0, gender |-> g, race |-> r]>> :
     g \in {"Female", "Male"}, r \in {"White", "Black", "Other"}}

\* eval_df is the train frame binarize_categorical_columns returns.
BinarizedFrame ==
  \E n \in 1..MaxRows : \E raw_train \in [1..n -> RawRows] : \E raw_test \in RawTestFrames :
    LET fixed == binarize_categorical_columns(raw_train, raw_test, {"gender", "race"})
    IN fixed.raised = "" /\ eval_df = fixed.train

EvalInit ==
  /\ CandOff
  /\ NotebookOff
  /\ GeneratorOff
  /\ FixColumnsOff
  /\ eval_result = None
  /\ \/ /\ eval_pc = "problem"
        /\ \E n \in 1..MaxRows : eval_df \in [1..n -> RecallRows]
        /\ eval_bound \in RecallBounds
     \/ /\ eval_pc = "fairness"
        /\ BinarizedFrame
        /\ eval_bound \in TprMaxDiffs
     \/ /\ eval_pc = "rate"
        /\ BinarizedFrame
        /\ eval_bound = <<0, 1>>

\* problem.constraints and problem.proxy_constraints evaluated
EvaluateProblemCell ==
  /\ eval_pc = "problem"
  /\ eval_result' =
       [constraints |-> ExampleProblem_constraints(
                          Column(eval_df, "label"), Column(eval_df, "predictions"), eval_bound),
        proxy_constraints |-> ExampleProblem_proxy_constraints(
                          Column(eval_df, "label"), Column(eval_df, "predictions"), eval_bound),
        recall |-> recall(Column(eval_df, "label"), Column(eval_df, "predictions"))]
  /\ eval_pc' = "problem_done"
  /\ UNCHANGED <<eval_df, eval_bound, candVars, nbVars, genVars, fixVars>>

\* train_error_rate, train_constraints =
\*   _get_error_rate_and_constraints(train_df, model.tpr_max_diff)
EvaluateFairnessCell ==
  /\ eval_pc = "fairness"
  /\ eval_result' = _get_error_rate_and_constraints(eval_df, eval_bound)
  /\ eval_pc' = "fairness_done"
  /\ UNCHANGED <<eval_df, eval_bound, candVars, nbVars, genVars, fixVars>>

\* positive_prediction_rate(predictions, subset), for each protected column
\* as the subset
EvaluatePositivePredictionRate ==
  /\ eval_pc = "rate"
  /\ eval_result' = [k \in 1..Len(PROTECTED_COLUMNS) |->
                       IF PROTECTED_COLUMNS[k] \in Columns(eval_df)
                       THEN positive_prediction_rate(Column(eval_df, "predictions"),
                                                     Column(eval_df, PROTECTED_COLUMNS[k]))
                       ELSE [raised |-> "KeyError"]]
  /\ eval_pc' = "rate_done"
  /\ UNCHANGED <<eval_df, eval_bound, candVars, nbVars, genVars, fixVars>>

EvalNext == EvaluateProblemCell \/ EvaluateFairnessCell \/ EvaluatePositivePredictionRate

SpecMetrics == EvalInit /\ [][EvalNext]_vars

(***************************************************************************)
(* Fairness_adult: training_helper and the generator it iterates,          *)
(* training_generator.  The data frames have the columns                   *)
(* _get_error_rate_and_constraints reads and one feature; the linear       *)
(* model predicts feature * kernel + bias, and what a run of train_op does *)
(* to the kernel and the bias is left open.                                *)
(***************************************************************************)
KernelValues == {-1, 1}
BiasValues == {-1, 0, 2}

FeatureRow(label, gender, race, feature) ==
  [label |-> label, feature |-> feature,
   gender_Female |-> IF gender = "Female" THEN 1 ELSE 0,
   gender_Male |-> IF gender = "Male" THEN 1 ELSE 0,
   race_White |-> IF race = "White" THEN 1 ELSE 0,
   race_Black |-> IF race = "Black" THEN 1 ELSE 0]

\* The rows the frames are made of, in a fixed order.
RowCatalogue ==
  <<FeatureRow(1, "Female", "White", 1), FeatureRow(1, "Male", "Black", -1),
    FeatureRow(0, "Female", "Black", 1), FeatureRow(0, "Male", "White", -1)>>

TrainFrame(rows) == [i \in 1..rows |-> RowCatalogue[((i - 1) % Len(RowCatalogue)) + 1]]
TestFrame == <<RowCatalogue[2], RowCatalogue[4], RowCatalogue[1]>>

\* random.shuffle(permutation): some ordering of range(num_rows).
shuffle(rows) ==
  {f \in [1..rows -> 0..(rows - 1)] : \A i, j \in 1..rows : f[i] = f[j] => i = j}

\* The state of the `random` module's generator: the seed it was last
\* given and the number of shuffles drawn from it since.
random_seed(a) == <<a, 0>>
after_shuffle(state) == <<state[1], state[2] + 1>>

\* random.shuffle(permutation) in a given state of the generator: the
\* ordering is a function of the state and of the length, one that the
\* program does not choose; it is fixed the first time it is asked for.
random_shuffle(state, rows) ==
  IF <<state, rows>> \in DOMAIN mersenne THEN {mersenne[<<state, rows>>]}
  ELSE shuffle(rows)

\* session.run(model.predictions_tensor, feed_dict=model.feed_dict_helper(df))
\* tf.layers.dense(inputs, units=1, activation=None): inputs . kernel + bias
predictions_tensor(df, weight, offset) ==
  [i \in 1..Len(df) |-> df[i].feature * weight + offset]

\* A plausible slip: a 'predictions' column that exists is kept.
SetPredictions_once(df, values) ==
  [i \in 1..Len(df) |->
     [c \in DOMAIN df[i] \cup {"predictions"} |->
        IF c \in DOMAIN df[i] THEN df[i][c] ELSE values[i]]]

\* df['predictions'] = values
SetPredictions(df, values) ==
  [i \in 1..Len(df) |->
     [c \in DOMAIN df[i] \cup {"predictions"} |->
        IF c = "predictions" THEN values[i] ELSE df[i][c]]]

\* range(a, b), as a sequence
Range(a, b) == [i \in 1..Max(b - a, 0) |-> a + i - 1]

\* training_helper is about to be called on the two frames.
TrainingSetup ==
  /\ CandOff
  /\ EvalOff
  /\ NotebookOff
  /\ FixColumnsOff
  /\ \E rows \in 1..MaxTrainRows : train_df = TrainFrame(rows)
  /\ test_df = TestFrame
  /\ gen_args \in [minibatch_size : 1..MaxMinibatchSize,
                   num_iterations_per_loop : 1..MaxIterationsPerLoop,
                   num_loops : 0..MaxLoops,
                   tpr_max_diff : TprMaxDiffs]
  /\ num_rows = 0
  /\ minibatch_size = 0
  /\ permutation = <<>>
  /\ kernel = 0
  /\ bias = 0
  /\ minibatch_start_index = 0
  /\ minibatch_indices = <<>>
  /\ loop_n = 0
  /\ iteration = 0
  /\ yielded = <<>>
  /\ train_error_rate_vector = <<>>
  /\ train_constraints_matrix = <<>>
  /\ test_error_rate_vector = <<>>
  /\ test_constraints_matrix = <<>>
  /\ helper_result = NoResult
  /\ fed = <<>>
  /\ mersenne = <<>>
  /\ earlier_fed = <<>>
  /\ gen_pc = "call"

\* One call of training_helper, in a fresh interpreter.
TrainingInit == TrainingSetup /\ random_state = <<0, 0>>

\* A plausible slip: the generator is not seeded, the shuffle continues
\* from whatever state the module's generator is in.
StartGenerator_unseeded ==
  /\ gen_pc = "call"
  /\ num_rows' = Len(train_df)
  /\ minibatch_size' = Min(gen_args.minibatch_size, Len(train_df))
  /\ permutation' \in random_shuffle(random_state, Len(train_df))
  /\ mersenne' = (<<random_state, Len(train_df)>> :> permutation') @@ mersenne
  /\ random_state' = after_shuffle(random_state)
  /\ kernel' \in KernelValues
  /\ bias' = 0
  /\ minibatch_start_index' = 0
  /\ iteration' = 0
  /\ IF 0 < gen_args.num_loops
     THEN /\ loop_n' = 0
          /\ gen_pc' = "for"
          /\ UNCHANGED helper_result
     ELSE /\ helper_result' =
               [raised |-> "",
                value |-> <<train_error_rate_vector, train_constraints_matrix,
                            test_error_rate_vector, test_constraints_matrix>>]
          /\ gen_pc' = "done"
          /\ UNCHANGED loop_n
  /\ UNCHANGED <<train_df, test_df, gen_args, minibatch_indices, yielded,
                 train_error_rate_vector, train_constraints_matrix,
                 test_error_rate_vector, test_constraints_matrix, fed,
                 earlier_fed>>
  /\ UNCHANGED <<candVars, evalVars, nbVars, fixVars>>

\* training_generator up to its first loop: the seeded generator, num_rows,
\* the clipped minibatch_size, the shuffled permutation, a session with
\* freshly initialized variables, minibatch_start_index = 0, and the test
\* of `for n in xrange(num_loops)`: with no pass to make the generator is
\* exhausted at once and training_helper returns its four empty lists.
StartGenerator ==
  /\ gen_pc = "call"
  /\ num_rows' = Len(train_df)
  /\ minibatch_size' = Min(gen_args.minibatch_size, Len(train_df))
  /\ permutation' \in random_shuffle(random_seed(31337), Len(train_df))
  /\ mersenne' = (<<random_seed(31337), Len(train_df)>> :> permutation') @@ mersenne
  /\ random_state' = after_shuffle(random_seed(31337))
  /\ kernel' \in KernelValues
  /\ bias' = 0
  /\ minibatch_start_index' = 0
  /\ iteration' = 0
  /\ IF 0 < gen_args.num_loops
     THEN /\ loop_n' = 0
          /\ gen_pc' = "for"
          /\ UNCHANGED helper_result
     ELSE /\ helper_result' =
               [raised |-> "",
                value |-> <<train_error_rate_vector, train_constraints_matrix,
                            test_error_rate_vector, test_constraints_matrix>>]
          /\ gen_pc' = "done"
          /\ UNCHANGED loop_n
  /\ UNCHANGED <<train_df, test_df, gen_args, minibatch_indices, yielded,
                 train_error_rate_vector, train_constraints_matrix,
                 test_error_rate_vector, test_constraints_matrix, fed,
                 earlier_fed>>
  /\ UNCHANGED <<candVars, evalVars, nbVars, fixVars>>

\* for _ in xrange(num_iterations_per_loop): minibatch_indices = []
BeginIteration ==
  /\ gen_pc = "for"
  /\ iteration < gen_args.num_iterations_per_loop
  /\ minibatch_indices' = <<>>
  /\ gen_pc' = "while"
  /\ UNCHANGED <<train_df, test_df, gen_args, num_rows, minibatch_size, permutation,
                 kernel, bias, minibatch_start_index, loop_n, iteration, yielded,
                 train_error_rate_vector, train_constraints_matrix,
                 test_error_rate_vector, test_constraints_matrix, helper_result, fed>>
  /\ UNCHANGED <<random_state, mersenne, earlier_fed>>
  /\ UNCHANGED <<candVars, evalVars, nbVars, fixVars>>

\* A plausible slip: > in place of >= in the wrap-around test.
FillMinibatch_strict ==
  /\ gen_pc = "while"
  /\ Len(minibatch_indices) < minibatch_size
  /\ LET minibatch_end_index ==
           minibatch_start_index + minibatch_size - Len(minibatch_indices)
     IN IF minibatch_end_index > num_rows
        THEN /\ minibatch_indices' =
                  minibatch_indices \o Range(minibatch_start_index, num_rows)
             /\ minibatch_start_index' = 0
        ELSE /\ minibatch_indices' =
                  minibatch_indices \o Range(minibatch_start_index, minibatch_end_index)
             /\ minibatch_start_index' = minibatch_end_index
  /\ UNCHANGED <<train_df, test_df, gen_args, num_rows, minibatch_size, permutation,
                 kernel, bias, loop_n, iteration, yielded, train_error_rate_vector,
                 train_constraints_matrix, test_error_rate_vector,
                 test_constraints_matrix, helper_result, fed, gen_pc>>
  /\ UNCHANGED <<random_state, mersenne, earlier_fed>>
  /\ UNCHANGED <<candVars, evalVars, nbVars, fixVars>>

\* One pass of the body of `while len(minibatch_indices) < minibatch_size`.
FillMinibatch ==
  /\ gen_pc = "while"
  /\ Len(minibatch_indices) < minibatch_size
  /\ LET minibatch_end_index ==
           minibatch_start_index + minibatch_size - Len(minibatch_indices)
     IN IF minibatch_end_index >= num_rows
        THEN /\ minibatch_indices' =
                  minibatch_indices \o Range(minibatch_start_index, num_rows)
             /\ minibatch_start_index' = 0
        ELSE /\ minibatch_indices' =
                  minibatch_indices \o Range(minibatch_start_index, minibatch_end_index)
             /\ minibatch_start_index' = minibatch_end_index
  /\ UNCHANGED <<train_df, test_df, gen_args, num_rows, minibatch_size, permutation,
                 kernel, bias, loop_n, iteration, yielded, train_error_rate_vector,
                 train_constraints_matrix, test_error_rate_vector,
                 test_constraints_matrix, helper_result, fed, gen_pc>>
  /\ UNCHANGED <<random_state, mersenne, earlier_fed>>
  /\ UNCHANGED <<candVars, evalVars, nbVars, fixVars>>

\* The while loop is left: session.run(model.train_op, feed_dict=... rows
\* permutation[ii] for ii in minibatch_indices).
RunTrainOp ==
  /\ gen_pc = "while"
  /\ ~(Len(minibatch_indices) < minibatch_size)
  /\ fed' = Append(fed, [loop |-> loop_n,
                         indices |-> minibatch_indices,
                         rows |-> [k \in 1..Len(minibatch_indices) |->
                                     permutation[minibatch_indices[k] + 1]]])
  /\ kernel' \in KernelValues
  /\ bias' \in BiasValues
  /\ iteration' = iteration + 1
  /\ gen_pc' = "for"
  /\ UNCHANGED <<train_df, test_df, gen_args, num_rows, minibatch_size, permutation,
                 minibatch_start_index, minibatch_indices, loop_n, yielded,
                 train_error_rate_vector, train_constraints_matrix,
                 test_error_rate_vector, test_constraints_matrix, helper_result>>
  /\ UNCHANGED <<random_state, mersenne, earlier_fed>>
  /\ UNCHANGED <<candVars, evalVars, nbVars, fixVars>>

\* The inner for loop is over: the predictions are read and yielded.
Yield ==
  /\ gen_pc = "for"
  /\ ~(iteration < gen_args.num_iterations_per_loop)
  /\ yielded' = Append(yielded, [train |-> predictions_tensor(train_df, kernel, bias),
                                 test |-> predictions_tensor(test_df, kernel, bias)])
  /\ gen_pc' = "helper"
  /\ UNCHANGED <<train_df, test_df, gen_args, num_rows, minibatch_size, permutation,
                 kernel, bias, minibatch_start_index, minibatch_indices, loop_n, iteration,
                 train_error_rate_vector, train_constraints_matrix,
                 test_error_rate_vector, test_constraints_matrix, helper_result, fed>>
  /\ UNCHANGED <<random_state, mersenne, earlier_fed>>
  /\ UNCHANGED <<candVars, evalVars, nbVars, fixVars>>

\* The body of training_helper's for loop on the pair just yielded.
AppendSnapshot ==
  /\ gen_pc = "helper"
  /\ LET pair == yielded[Len(yielded)]
         train == SetPredictions(train_df, pair.train)
         test == SetPredictions(test_df, pair.test)
         train_result == _get_error_rate_and_constraints(train, gen_args.tpr_max_diff)
         test_result == _get_error_rate_and_constraints(test, gen_args.tpr_max_diff)
     IN /\ train_df' = train
        /\ test_df' = test
        /\ IF train_result.raised # ""
           THEN /\ helper_result' = [raised |-> train_result.raised]
                /\ gen_pc' = "raised"
                /\ UNCHANGED <<train_error_rate_vector, train_constraints_matrix,
                               test_error_rate_vector, test_constraints_matrix>>
           ELSE /\ train_error_rate_vector' =
                     Append(train_error_rate_vector, train_result.error_rate)
                /\ train_constraints_matrix' =
                     Append(train_constraints_matrix, train_result.constraints)
                /\ IF test_result.raised # ""
                   THEN /\ helper_result' = [raised |-> test_result.raised]
                        /\ gen_pc' = "raised"
                        /\ UNCHANGED <<test_error_rate_vector, test_constraints_matrix>>
                   ELSE /\ test_error_rate_vector' =
                             Append(test_error_rate_vector, test_result.error_rate)
                        /\ test_constraints_matrix' =
                             Append(test_constraints_matrix, test_result.constraints)
                        /\ gen_pc' = "resume"
                        /\ UNCHANGED helper_result
  /\ UNCHANGED <<gen_args, num_rows, minibatch_size, permutation, kernel, bias,
                 minibatch_start_index, minibatch_indices, loop_n, iteration,
                 yielded, fed>>
  /\ UNCHANGED <<random_state, mersenne, earlier_fed>>
  /\ UNCHANGED <<candVars, evalVars, nbVars, fixVars>>

\* A plausible slip: minibatch_start_index = 0 inside the outer loop.
ResumeGenerator_from_zero ==
  /\ gen_pc = "resume"
  /\ loop_n + 1 < gen_args.num_loops
  /\ loop_n' = loop_n + 1
  /\ iteration' = 0
  /\ minibatch_start_index' = 0
  /\ gen_pc' = "for"
  /\ UNCHANGED <<train_df, test_df, gen_args, num_rows, minibatch_size, permutation,
                 kernel, bias, minibatch_indices, yielded,
                 train_error_rate_vector, train_constraints_matrix,
                 test_error_rate_vector, test_constraints_matrix, helper_result, fed>>
  /\ UNCHANGED <<random_state, mersenne, earlier_fed>>
  /\ UNCHANGED <<candVars, evalVars, nbVars, fixVars>>

\* The generator is resumed: the next pass of `for n in xrange(num_loops)`.
ResumeGenerator ==
  /\ gen_pc = "resume"
  /\ loop_n + 1 < gen_args.num_loops
  /\ loop_n' = loop_n + 1
  /\ iteration' = 0
  /\ gen_pc' = "for"
  /\ UNCHANGED <<train_df, test_df, gen_args, num_rows, minibatch_size, permutation,
                 kernel, bias, minibatch_start_index, minibatch_indices, yielded,
                 train_error_rate_vector, train_constraints_matrix,
                 test_error_rate_vector, test_constraints_matrix, helper_result, fed>>
  /\ UNCHANGED <<random_state, mersenne, earlier_fed>>
  /\ UNCHANGED <<candVars, evalVars, nbVars, fixVars>>

\* The generator is exhausted: training_helper returns the four sequences.
ReturnSnapshots ==
  /\ gen_pc = "resume"
  /\ ~(loop_n + 1 < gen_args.num_loops)
  /\ helper_result' = [raised |-> "",
                       value |-> <<train_error_rate_vector, train_constraints_matrix,
                                   test_error_rate_vector, test_constraints_matrix>>]
  /\ gen_pc' = "done"
  /\ UNCHANGED <<train_df, test_df, gen_args, num_rows, minibatch_size, permutation,
                 kernel, bias, minibatch_start_index, minibatch_indices, loop_n, iteration,
                 yielded, train_error_rate_vector, train_constraints_matrix,
                 test_error_rate_vector, test_constraints_matrix, fed>>
  /\ UNCHANGED <<random_state, mersenne, earlier_fed>>
  /\ UNCHANGED <<candVars, evalVars, nbVars, fixVars>>

TrainingNext ==
  \/ StartGenerator
  \/ BeginIteration
  \/ FillMinibatch
  \/ RunTrainOp
  \/ Yield
  \/ AppendSnapshot
  \/ ResumeGenerator
  \/ ReturnSnapshots

SpecTraining == TrainingInit /\ [][TrainingNext]_vars

\* The while loop's body, and the statement that follows the loop, run when
\* they can.
SpecTrainingLive == SpecTraining /\ WF_vars(FillMinibatch \/ RunTrainOp)

(***************************************************************************)
(* Fairness_adult, cells 6 and 8: training_helper is called again on the   *)
(* same frames with the same minibatch_size, num_iterations_per_loop and   *)
(* num_loops.  What the program did with the `random` module between the   *)
(* two calls is left open.                                                 *)
(***************************************************************************)
RandomSeeds == {0, 31337}
RandomStates == {<<a, drawn>> : a \in RandomSeeds, drawn \in 0..1}

TwoCallsInit == TrainingSetup /\ random_state \in RandomStates

\* training_helper is called once more: new lists, a new generator.
CallAgain ==
  /\ gen_pc = "done"
  /\ Len(earlier_fed) + 1 < NumCalls
  /\ earlier_fed' = Append(earlier_fed, fed)
  /\ fed' = <<>>
  /\ random_state' \in RandomStates
  /\ yielded' = <<>>
  /\ train_error_rate_vector' = <<>>
  /\ train_constraints_matrix' = <<>>
  /\ test_error_rate_vector' = <<>>
  /\ test_constraints_matrix' = <<>>
  /\ helper_result' = NoResult
  /\ minibatch_indices' = <<>>
  /\ gen_pc' = "call"
  /\ UNCHANGED <<train_df, test_df, gen_args, num_rows, minibatch_size, permutation,
                 kernel, bias, minibatch_start_index, loop_n, iteration, mersenne>>
  /\ UNCHANGED <<candVars, evalVars, nbVars, fixVars>>

TwoCallsNext == TrainingNext \/ CallAgain

SpecTwoCalls == TwoCallsInit /\ [][TwoCallsNext]_vars

(***************************************************************************)
(* Fairness_adult, get_data: fix_columns inside                            *)
(* binarize_categorical_columns, on the column lists of the two binarized  *)
(* frames.  A Python set is iterated in an order the program does not      *)
(* choose.                                                                 *)
(***************************************************************************)
ColumnNames == {"label", "race_White", "race_Black", "race_Other"}

ToSet(seq) == {seq[i] : i \in 1..Len(seq)}

\* The column lists a frame can have: the names of a set, in some order.
ColumnLists ==
  {cols \in UNION {[1..len -> ColumnNames] : len \in 1..Cardinality(ColumnNames)} :
     \A i, j \in 1..Len(cols) : cols[i] = cols[j] => i = j}

FixColumnsInit ==
  /\ CandOff
  /\ EvalOff
  /\ NotebookOff
  /\ GeneratorOff
  /\ train_columns \in ColumnLists
  /\ test_columns \in ColumnLists
  /\ test_df_missing_cols = {}
  /\ train_df_missing_cols = Unbound
  /\ fix_result = NoResult
  /\ fix_pc = "call"

\* test_df_missing_cols = set(input_train_df.columns) - set(input_test_df.columns)
CallFixColumns ==
  /\ fix_pc = "call"
  /\ test_df_missing_cols' = ToSet(train_columns) \ ToSet(test_columns)
  /\ fix_pc' = "test_loop"
  /\ UNCHANGED <<train_columns, test_columns, train_df_missing_cols, fix_result>>
  /\ UNCHANGED <<candVars, evalVars, nbVars, genVars>>

\* One pass of `for c in test_df_missing_cols`: the column is added to the
\* test frame and train_df_missing_cols is assigned.
FixTestColumn ==
  /\ fix_pc = "test_loop"
  /\ \E c \in test_df_missing_cols :
       /\ test_columns' = Append(test_columns, c)
       /\ test_df_missing_cols' = test_df_missing_cols \ {c}
       /\ LET missing == ToSet(Append(test_columns, c)) \ ToSet(train_columns)
          IN train_df_missing_cols' = [bound |-> TRUE, value |-> missing, left |-> missing]
  /\ UNCHANGED <<train_columns, fix_result, fix_pc>>
  /\ UNCHANGED <<candVars, evalVars, nbVars, genVars>>

\* `for c in train_df_missing_cols` is reached: the name is read.
BeginTrainLoop ==
  /\ fix_pc = "test_loop"
  /\ test_df_missing_cols = {}
  /\ IF train_df_missing_cols.bound
     THEN fix_pc' = "train_loop" /\ UNCHANGED fix_result
     ELSE fix_pc' = "raised" /\ fix_result' = [raised |-> "UnboundLocalError"]
  /\ UNCHANGED <<train_columns, test_columns, test_df_missing_cols, train_df_missing_cols>>
  /\ UNCHANGED <<candVars, evalVars, nbVars, genVars>>

\* One pass of `for c in train_df_missing_cols`: the column is added to the
\* train frame, which is then indexed by the test frame's columns.
FixTrainColumn ==
  /\ fix_pc = "train_loop"
  /\ \E c \in train_df_missing_cols.left :
       /\ train_df_missing_cols' =
            [train_df_missing_cols EXCEPT !.left = train_df_missing_cols.left \ {c}]
       /\ IF ToSet(test_columns) \subseteq ToSet(Append(train_columns, c))
          THEN /\ train_columns' = test_columns
               /\ UNCHANGED <<fix_result, fix_pc>>
          ELSE /\ train_columns' = Append(train_columns, c)
               /\ fix_result' = [raised |-> "KeyError"]
               /\ fix_pc' = "raised"
  /\ UNCHANGED <<test_columns, test_df_missing_cols>>
  /\ UNCHANGED <<candVars, evalVars, nbVars, genVars>>

\* return input_train_df, input_test_df
ReturnFixed ==
  /\ fix_pc = "train_loop"
  /\ train_df_missing_cols.left = {}
  /\ fix_result' = [raised |-> "", value |-> <<train_columns, test_columns>>]
  /\ fix_pc' = "done"
  /\ UNCHANGED <<train_columns, test_columns, test_df_missing_cols, train_df_missing_cols>>
  /\ UNCHANGED <<candVars, evalVars, nbVars, genVars>>

FixColumnsNext ==
  \/ CallFixColumns
  \/ FixTestColumn
  \/ BeginTrainLoop
  \/ FixTrainColumn
  \/ ReturnFixed

SpecFixColumns == FixColumnsInit /\ [][FixColumnsNext]_vars

(***************************************************************************)
(* The training cells of the two notebooks.  The recall example: cell 4    *)
(* (rate helpers), cell 5 (ExampleProblem), cell 7 (constrained training)  *)
(* and cell 8 (unconstrained training of the same variables).              *)
(* Fairness_adult: cell 6 (a Model trained unconstrained) and cell 8 (a    *)
(* second Model trained with the constraints).                             *)
(***************************************************************************)
FeatureValues == {-1, 1}

GraphInit ==
  /\ problem = NoProblem
  /\ model = NoModel
  /\ optimizers = <<>>
  /\ train_op = NoTrainOp
  /\ multipliers = <<>>
  /\ evaluation = NoEvaluation
  /\ phases_run = <<>>
  /\ ii = 0
  /\ run = 0
  /\ trained = <<>>
  /\ updates = {}
  /\ state_accesses = {}
  /\ resets = {}

\* The recall example after cell 3: the data set, and the variables
\* weights and threshold in the graph.
RecallInit ==
  /\ notebook = "recall"
  /\ cell = 4
  /\ nb_pc = "problem"
  /\ labels \in {l \in [1..NumExamples -> {0, 1}] : SumSeq(l) > 0}
  /\ features \in [1..NumExamples -> FeatureValues]
  /\ parameters = [weights |-> 0, threshold |-> 0]
  /\ GraphInit

\* Fairness_adult before cell 6: an empty graph.
FairnessInit ==
  /\ notebook = "fairness"
  /\ cell = 6
  /\ nb_pc = "model"
  /\ labels = <<>>
  /\ features = <<>>
  /\ parameters = <<>>
  /\ GraphInit

Init == CandOff /\ EvalOff /\ GeneratorOff /\ FixColumnsOff /\ (RecallInit \/ FairnessInit)

\* problem = tfco.RateMinimizationProblem(
\*     tfco.error_rate(context), [tfco.recall(context) >= recall_lower_bound])
RateProblemCell ==
  /\ notebook = "recall" /\ cell = 4 /\ nb_pc = "problem"
  /\ problem' = RateMinimizationProblem("error_rate",
                  <<[rate |-> "recall", geq |-> recall_lower_bound]>>)
  /\ cell' = 5
  /\ UNCHANGED <<notebook, nb_pc, labels, features, parameters, model, optimizers,
                 train_op, multipliers, evaluation, phases_run, ii, run, trained,
                 updates, state_accesses, resets, candVars, evalVars,
                 genVars, fixVars>>

\* problem = ExampleProblem(labels=constant_labels, predictions=predictions,
\*                          recall_lower_bound=recall_lower_bound)
ExampleProblemCell ==
  /\ notebook = "recall" /\ cell = 5 /\ nb_pc = "problem"
  /\ problem' = ExampleProblem(labels, recall_lower_bound)
  /\ cell' = 7
  /\ nb_pc' = "session"
  /\ UNCHANGED <<notebook, labels, features, parameters, model, optimizers,
                 train_op, multipliers, evaluation, phases_run, ii, run, trained,
                 updates, state_accesses, resets, candVars, evalVars,
                 genVars, fixVars>>

\* with tf.Session() as session:   /   session = tf.Session()
OpenSession ==
  /\ nb_pc = "session"
  /\ run' = Session(run)
  /\ nb_pc' = IF notebook = "recall" THEN "optimizer" ELSE "initialize"
  /\ UNCHANGED <<notebook, cell, labels, features, parameters, problem, model,
                 optimizers, train_op, multipliers, evaluation, phases_run, ii,
                 trained, updates, state_accesses, resets, candVars, evalVars,
                 genVars, fixVars>>

\* optimizer = tfco.ProxyLagrangianOptimizer(optimizer=tf.train.AdagradOptimizer(..))
\* in cell 7, optimizer = tf.train.AdagradOptimizer(..) in cell 8
CreateOptimizer ==
  /\ notebook = "recall" /\ nb_pc = "optimizer"
  /\ optimizers' = Append(optimizers,
                     [class |-> IF cell = 7 THEN "ProxyLagrangianOptimizer"
                                ELSE "AdagradOptimizer"])
  /\ nb_pc' = "minimize"
  /\ UNCHANGED <<notebook, cell, labels, features, parameters, problem, model,
                 train_op, multipliers, evaluation, phases_run, ii, run, trained,
                 updates, state_accesses, resets, candVars, evalVars,
                 genVars, fixVars>>

\* train_op = optimizer.minimize(problem) in cell 7,
\* train_op = optimizer.minimize(problem.objective) in cell 8
Minimize ==
  /\ notebook = "recall" /\ nb_pc = "minimize"
  /\ LET id == Len(optimizers)
         constrained == optimizers[id].class = "ProxyLagrangianOptimizer"
     IN /\ train_op' = [optimizer |-> id,
                        class |-> optimizers[id].class,
                        state |-> IF constrained THEN StateVariable(id) ELSE 0,
                        loss |-> IF constrained THEN "problem" ELSE "objective",
                        var_list |-> {"weights", "threshold"}]
        /\ multipliers' =
             IF constrained
             THEN (StateVariable(id) :> [j \in 1..Len(constraints_vector(problem)) |-> 0])
                  @@ multipliers
             ELSE multipliers
  /\ nb_pc' = "initialize"
  /\ UNCHANGED <<notebook, cell, labels, features, parameters, problem, model,
                 optimizers, evaluation, phases_run, ii, run, trained,
                 updates, state_accesses, resets, candVars, evalVars,
                 genVars, fixVars>>

\* session.run(tf.global_variables_initializer()): every variable of the
\* graph, the optimizers' state variables included, takes its initial value.
Initialize ==
  /\ nb_pc = "initialize"
  /\ parameters' = [v \in DOMAIN parameters |-> 0]
  /\ multipliers' = [s \in DOMAIN multipliers |->
                       [j \in 1..Len(multipliers[s]) |-> 0]]
  /\ resets' = resets \cup
       {[state |-> s, by |-> "global_variables_initializer", run |-> run] :
          s \in DOMAIN multipliers}
  /\ evaluation' = NoEvaluation
  /\ phases_run' = <<>>
  /\ ii' = 0
  /\ nb_pc' = "loop"
  /\ UNCHANGED <<notebook, cell, labels, features, problem, model, optimizers,
                 train_op, run, trained, updates, state_accesses,
                 candVars, evalVars,
                 genVars, fixVars>>

\* A run of train_op is under way.
Running == phases_run # <<>> /\ Len(phases_run) < Len(TrainOpPhases(train_op))
NextPhase == IF Running THEN TrainOpPhases(train_op)[Len(phases_run) + 1]
             ELSE "gradients"
Constrained == train_op.class = "ProxyLagrangianOptimizer"

\* What the train_op's tensors evaluate to on the current parameters.
Evaluations ==
  LET all == IF notebook = "recall"
             THEN {EvaluateExampleProblem(problem, features, parameters)}
             ELSE EvaluateRateProblem(problem, model.predictions_tensor)
  IN IF train_op.loss = "problem" THEN all
     ELSE {[ev EXCEPT !.proxy_grads = <<>>, !.proxy_constraints = <<>>,
                      !.constraints = <<>>] : ev \in all}

\* session.run(train_op), first step: the gradients are evaluated.
EvaluateGradients ==
  /\ nb_pc = "loop" /\ ~Running /\ ii < NumTrainSteps
  /\ evaluation' \in Evaluations
  /\ phases_run' = <<"gradients">>
  /\ UNCHANGED <<notebook, cell, nb_pc, labels, features, parameters, problem,
                 model, optimizers, train_op, multipliers, ii, run, trained,
                 updates, state_accesses, resets, candVars, evalVars,
                 genVars, fixVars>>

\* session.run(train_op): the model parameters take one step.
UpdateParameters ==
  /\ nb_pc = "loop" /\ Running /\ NextPhase = "parameters"
  /\ LET gradient == IF Constrained
                     THEN ParameterGradient(evaluation, multipliers[train_op.state])
                     ELSE evaluation.objective_grad
     IN parameters' = ApplyGradients(parameters, gradient, train_op.var_list)
  /\ updates' = updates \cup
       {[variable |-> v, optimizer |-> train_op.optimizer, run |-> run] :
          v \in train_op.var_list}
  /\ state_accesses' =
       IF Constrained
       THEN state_accesses \cup
              {[state |-> train_op.state, by |-> train_op.optimizer, run |-> run]}
       ELSE state_accesses
  /\ phases_run' = Append(phases_run, "parameters")
  /\ ii' = IF Len(phases_run') = Len(TrainOpPhases(train_op)) THEN ii + 1 ELSE ii
  /\ UNCHANGED <<notebook, cell, nb_pc, labels, features, problem, model,
                 optimizers, train_op, multipliers, evaluation, run, trained,
                 resets, candVars, evalVars,
                 genVars, fixVars>>

\* session.run(train_op): the multipliers take one step, on the true
\* constraints evaluated anew.
UpdateMultipliers ==
  /\ nb_pc = "loop" /\ Running /\ NextPhase = "multipliers"
  /\ \E ev \in Evaluations :
        /\ evaluation' = ev
        /\ multipliers' = [multipliers EXCEPT
                             ![train_op.state] = MultiplierUpdate(@, ev)]
  /\ state_accesses' = state_accesses \cup
       {[state |-> train_op.state, by |-> train_op.optimizer, run |-> run]}
  /\ phases_run' = Append(phases_run, "multipliers")
  /\ ii' = IF Len(phases_run') = Len(TrainOpPhases(train_op)) THEN ii + 1 ELSE ii
  /\ UNCHANGED <<notebook, cell, nb_pc, labels, features, parameters, problem,
                 model, optimizers, train_op, run, trained, updates, resets,
                 candVars, evalVars,
                 genVars, fixVars>>

\* trained_weights, trained_threshold = session.run((weights, threshold))
ReadTrained ==
  /\ notebook = "recall" /\ nb_pc = "loop" /\ ~Running /\ ii = NumTrainSteps
  /\ trained' = parameters
  /\ cell' = IF cell = 7 THEN 8 ELSE 0
  /\ nb_pc' = IF cell = 7 THEN "session" ELSE "done"
  /\ UNCHANGED <<notebook, labels, features, parameters, problem, model,
                 optimizers, train_op, multipliers, evaluation, phases_run, ii,
                 run, updates, state_accesses, resets, candVars, evalVars,
                 genVars, fixVars>>

\* model = Model(tpr_max_diff=0.05): tf.layers.dense adds the layer's
\* variables to the graph, under a name no earlier layer has.
CreateModel ==
  /\ notebook = "fairness" /\ nb_pc = "model"
  /\ LET layer == IF "dense" \in DOMAIN parameters THEN "dense_1" ELSE "dense"
     IN /\ model' = Model(tpr_max_diff_of_notebook, layer)
        /\ parameters' = (layer :> 0) @@ parameters
  /\ nb_pc' = "build"
  /\ UNCHANGED <<notebook, cell, labels, features, problem, optimizers, train_op,
                 multipliers, evaluation, phases_run, ii, run, trained, updates,
                 state_accesses, resets, candVars, evalVars,
                 genVars, fixVars>>

\* model.build_train_op(0.01, unconstrained=..): unconstrained in cell 6.
\* Only the model's own layer has a gradient, so only it is updated.
BuildTrainOp ==
  /\ notebook = "fairness" /\ nb_pc = "build"
  /\ LET constraints == build_train_op_constraints(model, cell = 6)
         id == Len(optimizers) + 1
     IN /\ problem' = RateMinimizationProblem("error_rate", constraints)
        /\ optimizers' = Append(optimizers, [class |-> "ProxyLagrangianOptimizer"])
        /\ train_op' = [optimizer |-> id,
                        class |-> "ProxyLagrangianOptimizer",
                        state |-> StateVariable(id),
                        loss |-> "problem",
                        var_list |-> {model.predictions_tensor}]
        /\ multipliers' = (StateVariable(id) :> [j \in 1..Len(constraints) |-> 0])
                          @@ multipliers
  /\ nb_pc' = "session"
  /\ UNCHANGED <<notebook, cell, labels, features, parameters, model, evaluation,
                 phases_run, ii, run, trained, updates, state_accesses, resets,
                 candVars, evalVars,
                 genVars, fixVars>>

\* training_helper returns; the next cell, if any, builds another Model.
EndTraining ==
  /\ notebook = "fairness" /\ nb_pc = "loop" /\ ~Running /\ ii = NumTrainSteps
  /\ cell' = IF cell = 6 THEN 8 ELSE 0
  /\ nb_pc' = IF cell = 6 THEN "model" ELSE "done"
  /\ UNCHANGED <<notebook, labels, features, parameters, problem, model,
                 optimizers, train_op, multipliers, evaluation, phases_run, ii,
                 run, trained, updates, state_accesses, resets, candVars, evalVars,
                 genVars, fixVars>>

Next ==
  \/ RateProblemCell \/ ExampleProblemCell \/ OpenSession \/ CreateOptimizer
  \/ Minimize \/ Initialize \/ EvaluateGradients \/ UpdateParameters
  \/ UpdateMultipliers \/ ReadTrained \/ CreateModel \/ BuildTrainOp
  \/ EndTraining

Spec == Init /\ [][Next]_vars

(***************************************************************************)
(* Properties of the candidate selection.                                  *)
(***************************************************************************)
NumSnapshots == Len(train_errors)
NumViolations == Len(train_violations[1])
Snapshots == 1..NumSnapshots
IndexKnown == cand_pc # "cell10"
DistKnown == cand_pc \in {"cell13", "done"}

\* Snapshot i is feasible: all its violations are <= 0.
Feasible(i) == \A j \in 1..NumViolations : train_violations[i][j] <= 0
WorstViolation(i) == CHOOSE w \in {train_violations[i][j] : j \in 1..NumViolations} :
                        \A j \in 1..NumViolations : train_violations[i][j] <= w
\* Snapshot k ranks strictly before snapshot i by feasibility.
ViolationBefore(k, i) ==
  ~Feasible(i) /\ (Feasible(k) \/ WorstViolation(k) < WorstViolation(i))
ErrorRank(i) == 1 + Cardinality({k \in Snapshots : train_errors[k] < train_errors[i]})
ViolationRank(i) == 1 + Cardinality({k \in Snapshots : ViolationBefore(k, i)})
CombinedRank(i) == Max(ErrorRank(i), ViolationRank(i))

\* C1: the index find_best_candidate_index returns is a valid index of the
\* snapshot sequence, no snapshot has a smaller max(error rank, violation
\* rank) (feasible snapshots sharing the best violation rank), and no
\* snapshot of the same combined rank has a lower error.
C1_BestIndexMinimizesCombinedRank ==
  IndexKnown =>
    /\ best_cand_index \in 0..(NumSnapshots - 1)
    /\ LET b == best_cand_index + 1
       IN \A i \in Snapshots :
            /\ CombinedRank(b) <= CombinedRank(i)
            /\ CombinedRank(i) = CombinedRank(b) => train_errors[b] <= train_errors[i]

\* The tie-break decided: three snapshots, feasible and infeasible ones
\* among them, and a snapshot of the returned one's combined rank has a
\* higher error than the returned one.
C1_Witness ==
  /\ IndexKnown
  /\ NumSnapshots = 3
  /\ \E i, k \in Snapshots : Feasible(i) /\ ~Feasible(k)
  /\ \E i \in Snapshots :
        /\ CombinedRank(i) = CombinedRank(best_cand_index + 1)
        /\ train_errors[i] > train_errors[best_cand_index + 1]

IsSpecExample ==
  /\ train_errors = SpecExample.errors
  /\ train_violations = SpecExample.violations

\* C2 as stated: for errors [0.1, 0.2, 0.05] and violations [[0.0], [-0.01],
\* [0.2]] the best index is 1.
C2_ExampleReturnsIndexOne ==
  (IndexKnown /\ IsSpecExample) => best_cand_index = 1

\* C2, amended: for errors [0.1, 0.2, 0.05] and violations [[0.0], [-0.01],
\* [0.2]] the best index is 0: the combined ranks are 2, 3, 3 (index 1 has
\* the highest error, index 2 the only positive violation).
C2_ExampleReturnsIndexZero ==
  (IndexKnown /\ IsSpecExample) =>
    /\ best_cand_index = 0
    /\ <<CombinedRank(1), CombinedRank(2), CombinedRank(3)>> = <<2, 3, 3>>

C2_Witness == IndexKnown /\ IsSpecExample /\ best_cand_index \in {0, 1, 2}

Support == SupportOf(cand_dist)

\* C8 as stated: the m-stochastic solution is no worse than the T-stochastic
\* average, in expected error and in the largest expected violation.
C8_DominatesUniformAverage ==
  cand_pc = "done" =>
    /\ RatLeq(m_stoch.error, t_stoch.error)
    /\ RatLeq(m_stoch.violation, t_stoch.violation)

\* q lies between the least and the largest of values[1..n].
Between(q, values) ==
  /\ \E i \in 1..Len(values) : RatLeq(RatOfInt(values[i]), q)
  /\ \E i \in 1..Len(values) : RatLeq(q, RatOfInt(values[i]))

\* C10: the distribution has one entry per snapshot, every entry is >= 0
\* and the entries sum to 1; the expected error and every expected
\* violation _get_exp_error_rate_constraints computes from it lie between
\* the least and the largest value among the snapshots.
C10_ProbabilityVector ==
  /\ DistKnown =>
       /\ DOMAIN cand_dist.num = Snapshots
       /\ cand_dist.den > 0
       /\ \A i \in Snapshots : cand_dist.num[i] >= 0
       /\ SumTo(cand_dist.num, NumSnapshots) = cand_dist.den
  /\ cand_pc = "done" =>
       /\ Between(m_stoch.error, train_errors)
       /\ \A j \in 1..NumViolations :
            Between(m_stoch.violations[j],
                    [i \in Snapshots |-> train_violations[i][j]])

\* A distribution with two fractional weights over snapshots of different
\* errors has been evaluated.
C10_Witness ==
  /\ cand_pc = "done"
  /\ Cardinality(Support) >= 2
  /\ \E i, k \in Support : train_errors[i] # train_errors[k]

(***************************************************************************)
(* Properties of the evaluations.                                          *)
(***************************************************************************)
EvalRows == 1..Len(eval_df)
PositiveRows == {i \in EvalRows : eval_df[i].label = 1}
GroupRows(k) ==
  {i \in EvalRows : PROTECTED_COLUMNS[k] \in Columns(eval_df) /\ eval_df[i][PROTECTED_COLUMNS[k]] = 1}
Zero == <<0, 1>>

\* The recall: the share of the positively labelled rows predicted > 0;
\* and its surrogate, the mean of min(1, prediction) over those rows.
RecallRate ==
  <<Cardinality({i \in PositiveRows : eval_df[i].predictions > 0}), Cardinality(PositiveRows)>>
ProxyRecallRate ==
  <<SumTo([i \in EvalRows |-> IF i \in PositiveRows
                              THEN Min(PredictionUnit, eval_df[i].predictions) ELSE 0],
          Len(eval_df)),
    PredictionUnit * Cardinality(PositiveRows)>>
\* The true positive rate of a set of rows, as tpr measures it.
TprRate(rows) ==
  <<Cardinality({i \in rows \cap PositiveRows : eval_df[i].predictions >= 0}),
    Cardinality(rows \cap PositiveRows)>>

\* value = bound - rate, and value <= 0 exactly when rate >= bound
MeetsConvention(value, rate, bound) ==
  /\ RatEq(value, RatSub(bound, rate))
  /\ RatLeq(value, Zero) <=> RatLeq(bound, rate)

\* C3: with a positively labelled row in every denominator, the values of
\* ExampleProblem.constraints and ExampleProblem.proxy_constraints are
\* recall_lower_bound - recall (for the recall and for its surrogate), and
\* entry k of _get_error_rate_and_constraints is (overall_tpr -
\* tpr_max_diff) - tpr of the k-th protected group; each value is <= 0
\* exactly when its rate is >= its bound.
C3_SignConvention ==
  /\ (eval_pc = "problem_done" /\ PositiveRows # {}) =>
       /\ MeetsConvention(eval_result.constraints, RecallRate, eval_bound)
       /\ MeetsConvention(eval_result.proxy_constraints, ProxyRecallRate, eval_bound)
  /\ (eval_pc = "fairness_done"
      /\ \A k \in 1..Len(PROTECTED_COLUMNS) : GroupRows(k) \cap PositiveRows # {}) =>
       /\ eval_result.raised = ""
       /\ Len(eval_result.constraints) = Len(PROTECTED_COLUMNS)
       /\ \A k \in 1..Len(PROTECTED_COLUMNS) :
            MeetsConvention(eval_result.constraints[k], TprRate(GroupRows(k)),
                            RatSub(TprRate(EvalRows), eval_bound))

\* A data frame of MaxRows rows whose groups all have a positive row, with
\* one constraint violated and one met with room.
C3_Witness ==
  /\ eval_pc = "fairness_done"
  /\ \A k \in 1..Len(PROTECTED_COLUMNS) : GroupRows(k) \cap PositiveRows # {}
  /\ \E k \in 1..Len(PROTECTED_COLUMNS) : RatLt(Zero, eval_result.constraints[k])
  /\ \E k \in 1..Len(PROTECTED_COLUMNS) : RatLt(eval_result.constraints[k], Zero)
  /\ Len(eval_df) = MaxRows

(***************************************************************************)
(* Properties of the training cells.                                       *)
(***************************************************************************)
ProblemBuilt == problem.class \in {"ExampleProblem", "RateMinimizationProblem"}

\* Predictions on which the indicator (prediction > 0) and the proxy
\* min(1.0, prediction) agree: 0.0, 1.0 and a value above 1.0.
SaturatedPredictions(n) == [1..n -> {0, PredictionUnit, PredictionUnit + 1}]
AllPredictions(n) == [1..n -> (-1)..(PredictionUnit + 1)]

\* ExampleProblem.constraints and .proxy_constraints on given predictions.
TrueConstraint(predictions, bound) ==
  ExampleProblem_constraints(problem.labels, predictions, bound)
ProxyConstraint(predictions, bound) ==
  ExampleProblem_proxy_constraints(problem.labels, predictions, bound)

FullRun == <<"gradients", "parameters", "multipliers">>
IsPrefix(s, t) == Len(s) <= Len(t) /\ \A k \in 1..Len(s) : s[k] = t[k]
StepDone(name) ==
  /\ Len(phases_run') = Len(phases_run) + 1
  /\ phases_run'[Len(phases_run')] = name

\* Other values the constraints could have taken.
AltVectors(mm) == [1..mm -> {<<-1, 1>>, <<0, 1>>, <<1, 1>>}]
Negated(grad) == [v \in DOMAIN grad |-> <<-grad[v][1], grad[v][2]>>]

\* The step along the proxy objective's gradient plus the proxy
\* constraints' gradients, each weighted by its multiplier.
WeightedProxyStep(v) ==
  LET lambda == multipliers[train_op.state]
      g == RatAdd(evaluation.objective_grad[v],
                  RatSumTo([j \in 1..Len(lambda) |->
                              <<lambda[j] * evaluation.proxy_grads[j][v][1],
                                evaluation.proxy_grads[j][v][2]>>], Len(lambda)))
  IN parameters[v] - Sign(g[1])

C5_Step ==
  (nb_pc = "loop" /\ nb_pc' = "loop" /\ Constrained) =>
    /\ IsPrefix(phases_run', FullRun)
    /\ ii' # ii => (ii' = ii + 1 /\ phases_run' = FullRun)
    /\ parameters' # parameters => StepDone("parameters")
    /\ multipliers' # multipliers => StepDone("multipliers")
    /\ StepDone("parameters") =>
         /\ \A v \in train_op.var_list : parameters'[v] = WeightedProxyStep(v)
         /\ \A alt \in AltVectors(Len(evaluation.constraints)) :
              parameters' = ApplyGradients(parameters,
                              ParameterGradient([evaluation EXCEPT !.constraints = alt],
                                                multipliers[train_op.state]),
                              train_op.var_list)
    /\ StepDone("multipliers") =>
         \A alt \in AltVectors(Len(evaluation'.constraints)) :
           multipliers'[train_op.state] =
             MultiplierUpdate(multipliers[train_op.state],
               [evaluation' EXCEPT
                  !.proxy_constraints = alt,
                  !.objective_grad = Negated(@),
                  !.proxy_grads = [j \in DOMAIN @ |-> Negated(@[j])]])

\* C5: every run of a ProxyLagrangianOptimizer's train_op evaluates the
\* gradients, then updates the model parameters once, then updates the
\* multipliers once, and is complete only then; the parameter update is the
\* step along the proxy objective's gradient plus the proxy constraints'
\* weighted by the current multipliers and does not depend on the true
\* constraints' values; the multiplier update depends on the true
\* constraints' values only.
C5_TrainOpOrderAndInputs == [][C5_Step]_vars

\* The second run of the recall example's constrained train_op has updated
\* the parameters with a positive multiplier, and the weighted proxy
\* constraint turned the threshold's gradient.
C5_Witness ==
  /\ notebook = "recall" /\ cell = 7 /\ nb_pc = "loop"
  /\ ii = 1
  /\ phases_run = <<"gradients", "parameters">>
  /\ multipliers[train_op.state][1] > 0
  /\ Sign(ParameterGradient(evaluation, multipliers[train_op.state]).threshold[1])
       # Sign(evaluation.objective_grad.threshold[1])

Optimizers(variable) == {u.optimizer : u \in {w \in updates : w.variable = variable}}

\* C6 as stated: every model parameter is updated by one optimizer instance
\* only, a multiplier state is accessed by one optimizer only, and it is
\* set to its initial value only by its optimizer's construction.
C6_OneOptimizerResetAtConstruction ==
  /\ \A u1, u2 \in updates : u1.variable = u2.variable => u1.optimizer = u2.optimizer
  /\ \A a1, a2 \in state_accesses : a1.state = a2.state => a1.by = a2.by
  /\ \A r \in resets : r.by = "constructor"

\* C6, amended: within one session every model parameter is updated by one
\* optimizer instance only, the one whose train_op the session's loop runs;
\* a multiplier state is accessed only by the optimizer that created it, in
\* a session that initialized it; and it is set to its initial value by a
\* session's tf.global_variables_initializer() only.
C6_OneOptimizerPerRun ==
  /\ \A u1, u2 \in updates :
       (u1.variable = u2.variable /\ u1.run = u2.run) => u1.optimizer = u2.optimizer
  /\ nb_pc = "loop" => \A u \in updates : u.run = run => u.optimizer = train_op.optimizer
  /\ \A a1, a2 \in state_accesses : a1.state = a2.state => a1.by = a2.by
  /\ \A a \in state_accesses :
       /\ a.by \in 1..Len(optimizers)
       /\ optimizers[a.by].class = "ProxyLagrangianOptimizer"
       /\ \E r \in resets : r.state = a.state /\ r.run = a.run
  /\ \A r \in resets : r.by = "global_variables_initializer"

\* The recall example has run both loops: weights were updated by the two
\* optimizers in turn, and the first one's multiplier state was used.
C6_Witness ==
  /\ notebook = "recall" /\ nb_pc = "done"
  /\ Cardinality(Optimizers("weights")) = 2
  /\ state_accesses # {}


(***************************************************************************)
(* Properties of the rate helpers.                                         *)
(***************************************************************************)
Raised(result) == "raised" \in DOMAIN result /\ result.raised # ""

\* C12: a rate whose denominator slice is empty (no positively labelled
\* row, or no row of the protected group) ends in an error raised to the
\* caller, never in a value: for tpr inside _get_error_rate_and_constraints,
\* for positive_prediction_rate, and for recall and ExampleProblem.constraints
\* of the recall example.
C12_EmptyDenominatorRaises ==
  /\ (eval_pc = "fairness_done"
      /\ \E k \in 1..Len(PROTECTED_COLUMNS) : GroupRows(k) \cap PositiveRows = {})
       => Raised(eval_result)
  /\ eval_pc = "rate_done"
       => \A k \in 1..Len(PROTECTED_COLUMNS) :
            GroupRows(k) = {} => Raised(eval_result[k])
  /\ (eval_pc = "problem_done" /\ PositiveRows = {}) => Raised(eval_result)

(***************************************************************************)
(* Properties of training_generator and training_helper.                   *)
(***************************************************************************)
GeneratorStarted == gen_pc \notin {"off", "call"}
Rows == 0..(num_rows - 1)
FedInLoop(loop) == {k \in 1..Len(fed) : fed[k].loop = loop}
RowsFedInLoop(loop) ==
  {fed[k].rows[j] : k \in FedInLoop(loop), j \in 1..minibatch_size}

\* C13: whenever training_generator yields, every training row has been fed
\* to train_op at least once since the previous yield (since the start, for
\* the first yield), whatever num_rows, minibatch_size and
\* num_iterations_per_loop are.
C13_EpochBeforeEachYield ==
  gen_pc = "helper" => Rows \subseteq RowsFedInLoop(loop_n)

NoDuplicates(seq) == \A i, j \in 1..Len(seq) : seq[i] = seq[j] => i = j
InWhile == gen_pc = "while"

C17_Minibatches ==
  /\ GeneratorStarted => minibatch_start_index \in Rows
  /\ InWhile => /\ Len(minibatch_indices) <= minibatch_size
                /\ NoDuplicates(minibatch_indices)
  /\ \A k \in 1..Len(fed) :
       /\ Len(fed[k].indices) = Min(gen_args.minibatch_size, num_rows)
       /\ \A j \in 1..Len(fed[k].indices) : fed[k].indices[j] \in Rows
       /\ NoDuplicates(fed[k].indices)

\* Every pass of the while loop lengthens minibatch_indices.
C17_Progress ==
  (InWhile /\ gen_pc' = "while") => Len(minibatch_indices') > Len(minibatch_indices)

\* C17: the inner while loop terminates (each pass lengthens
\* minibatch_indices, which never exceeds minibatch_size, and the loop is
\* left); every minibatch fed has exactly min(minibatch_size, num_rows)
\* positions, each in 0..num_rows-1, none twice, also when it wraps around;
\* minibatch_start_index stays in 0..num_rows-1.
C17_MinibatchWellFormed ==
  /\ []C17_Minibatches
  /\ [][C17_Progress]_vars
  /\ (InWhile ~> ~InWhile)

\* A minibatch that wrapped around the end of the data has been fed.
C17_Witness ==
  \E k \in 1..Len(fed) :
    \E j \in 1..(Len(fed[k].indices) - 1) : fed[k].indices[j + 1] < fed[k].indices[j]

RECURSIVE FedIndices(_)
FedIndices(k) == IF k = 0 THEN <<>> ELSE FedIndices(k - 1) \o fed[k].indices
AllIndices == FedIndices(Len(fed)) \o (IF InWhile THEN minibatch_indices ELSE <<>>)
TimesFed(row) ==
  Cardinality({kj \in (1..Len(fed)) \X (1..minibatch_size) : fed[kj[1]].rows[kj[2]] = row})

\* C18: the minibatches of one call, concatenated (with the one being
\* filled), are a prefix of 0, 1, ..., num_rows-1, 0, 1, ...;
\* minibatch_start_index is the position that follows, carried over between
\* minibatches and loops; the numbers of times two rows were fed differ by
\* at most 1.
C18_CyclicFeed ==
  GeneratorStarted =>
    /\ \A k \in 1..Len(AllIndices) : AllIndices[k] = (k - 1) % num_rows
    /\ minibatch_start_index = Len(AllIndices) % num_rows
    /\ \A r1, r2 \in Rows : TimesFed(r1) - TimesFed(r2) <= 1

\* A second loop began in the middle of the data and the call completed.
C18_Witness ==
  /\ gen_pc = "done"
  /\ \E k \in 2..Len(fed) :
       /\ fed[k].loop = 1 /\ fed[k - 1].loop = 0
       /\ fed[k].indices[1] # 0
  /\ Len(AllIndices) % num_rows # 0

\* df with its 'predictions' column set to values.
FrameWith(df, values) ==
  [i \in 1..Len(df) |->
     [label |-> df[i].label, feature |-> df[i].feature, predictions |-> values[i],
      gender_Female |-> df[i].gender_Female, gender_Male |-> df[i].gender_Male,
      race_White |-> df[i].race_White, race_Black |-> df[i].race_Black]]
SnapshotOf(df, values) ==
  _get_error_rate_and_constraints(FrameWith(df, values), gen_args.tpr_max_diff)

C14_Snapshots ==
  /\ \A k \in 1..Len(train_error_rate_vector) :
       /\ k <= Len(yielded) /\ k <= Len(train_constraints_matrix)
       /\ LET snapshot == SnapshotOf(train_df, yielded[k].train)
          IN /\ train_error_rate_vector[k] = snapshot.error_rate
             /\ train_constraints_matrix[k] = snapshot.constraints
  /\ \A k \in 1..Len(test_error_rate_vector) :
       /\ k <= Len(yielded) /\ k <= Len(test_constraints_matrix)
       /\ LET snapshot == SnapshotOf(test_df, yielded[k].test)
          IN /\ test_error_rate_vector[k] = snapshot.error_rate
             /\ test_constraints_matrix[k] = snapshot.constraints
  /\ gen_pc = "done" =>
       /\ helper_result.value = <<train_error_rate_vector, train_constraints_matrix,
                                  test_error_rate_vector, test_constraints_matrix>>
       /\ \A v \in 1..4 : Len(helper_result.value[v]) = gen_args.num_loops
       /\ Len(yielded) = gen_args.num_loops

C14_Kept ==
  /\ IsPrefix(train_error_rate_vector, train_error_rate_vector')
  /\ IsPrefix(train_constraints_matrix, train_constraints_matrix')
  /\ IsPrefix(test_error_rate_vector, test_error_rate_vector')
  /\ IsPrefix(test_constraints_matrix, test_constraints_matrix')

\* C14: the four sequences training_helper returns have length num_loops;
\* entry k of an error vector and row k of the matching violation matrix
\* are computed from the predictions yielded at the end of epoch k; a step
\* only ever appends to the four sequences.
C14_SnapshotPerEpoch == []C14_Snapshots /\ [][C14_Kept]_vars

\* Two epochs whose snapshots differ were recorded and returned.
C14_Witness ==
  /\ gen_pc = "done"
  /\ gen_args.num_loops = 2
  /\ train_error_rate_vector[1] # train_error_rate_vector[2]
  /\ test_constraints_matrix[1] # test_constraints_matrix[2]

(***************************************************************************)
(* The evaluated and the trained fairness constraint.                      *)
(***************************************************************************)
\* The true positive rate build_train_op constrains, over a set of rows: a
\* row is a true positive iff its label is positive and its prediction > 0.
TrainedTpr(rows) ==
  <<Cardinality({i \in rows \cap PositiveRows : eval_df[i].predictions > 0}),
    Cardinality(rows \cap PositiveRows)>>

\* C16: for every data frame, predictions equal to 0 included, and every
\* protected group g, the violation _get_error_rate_and_constraints reports
\* is (TPR_all - tpr_max_diff) - TPR_g with the true positives counted as
\* in training (label positive and prediction > 0).
C16_EvaluatedIsTrained ==
  (eval_pc = "fairness_done" /\ eval_result.raised = "") =>
    \A k \in 1..Len(PROTECTED_COLUMNS) :
      RatEq(eval_result.constraints[k],
            RatSub(RatSub(TrainedTpr(EvalRows), eval_bound), TrainedTpr(GroupRows(k))))

(***************************************************************************)
(* Properties of Model.build_train_op and Model.feed_dict_helper.          *)
(***************************************************************************)
ProblemOfCell(c) ==
  /\ notebook = "fairness"
  /\ \/ cell = c /\ nb_pc \notin {"model", "build"}
     \/ c = 8 /\ nb_pc = "done"

\* Data frames with a feature, a label, predictions and the protected columns.
FedFrames ==
  [1..2 -> {[c \in DOMAIN FeatureRow(0, "Male", "Other", 1) \cup {"predictions"} |->
               IF c = "predictions" THEN pl[1]
               ELSE FeatureRow(pl[2], gr[1], gr[2], 1)[c]] :
              pl \in {-1, 1} \X {0, 1},
              gr \in {"Female", "Male"} \X {"White", "Black", "Other"}}]

Fed(feed_dict, placeholder) == (CHOOSE item \in feed_dict : item.key = placeholder).value

\* The rows the subset of a trained constraint selects when df is fed:
\* (placeholder > 0) & (labels_placeholder > 0).
SubsetRows(constraint, df) ==
  LET feed_dict == feed_dict_helper(model, df)
  IN SelectSeq([i \in 1..Len(df) |->
                  [row |-> df[i],
                   selected |-> /\ Fed(feed_dict, constraint.subset[1])[i] > 0
                                /\ Fed(feed_dict, labels_placeholder)[i] > 0]],
               LAMBDA r : r.selected)

\* C19: build_train_op(unconstrained=True) builds the error-rate objective
\* with no constraint; with unconstrained=False it builds one constraint per
\* entry of PROTECTED_COLUMNS, and for every position j the j-th constraint
\* is on the j-th placeholder, feed_dict_helper feeds that placeholder the
\* column PROTECTED_COLUMNS[j], and entry j of the violations of
\* _get_error_rate_and_constraints is measured on the rows the j-th
\* constraint selects.
C19_ConstraintPerProtectedColumn ==
  /\ ProblemOfCell(6) =>
       /\ problem.objective = "error_rate"
       /\ problem.constraints = <<>>
  /\ ProblemOfCell(8) =>
       /\ problem.objective = "error_rate"
       /\ Len(problem.constraints) = Len(PROTECTED_COLUMNS)
       /\ Len(model.protected_placeholders) = Len(PROTECTED_COLUMNS)
       /\ \A j \in 1..Len(PROTECTED_COLUMNS) :
            problem.constraints[j].subset[1] = model.protected_placeholders[j]
       /\ \A df \in FedFrames :
            LET violations == _get_error_rate_and_constraints(df, model.tpr_max_diff)
                feed_dict == feed_dict_helper(model, df)
                bound == RatSub(tpr(df), model.tpr_max_diff)
            IN \A j \in 1..Len(PROTECTED_COLUMNS) :
                 LET selected == SubsetRows(problem.constraints[j], df)
                 IN /\ Fed(feed_dict, model.protected_placeholders[j])
                         = Column(df, PROTECTED_COLUMNS[j])
                    /\ violations.raised = "" =>
                         RatEq(violations.constraints[j],
                               RatSub(bound,
                                      tpr([i \in 1..Len(selected) |-> selected[i].row])))

\* Both problems have been built and trained: cell 6's without constraints,
\* cell 8's with one constraint per protected column.
C19_Witness ==
  /\ notebook = "fairness" /\ nb_pc = "done"
  /\ Len(problem.constraints) = Len(PROTECTED_COLUMNS)
  /\ Cardinality({u.optimizer : u \in updates}) = 2

(***************************************************************************)
(* Properties of fix_columns.                                              *)
(***************************************************************************)
\* C20: fix_columns returns normally, with train and test frames that have
\* the same set of columns, whatever columns the two frames came in with.
C20_ReturnsSameColumns ==
  fix_pc \in {"done", "raised"} =>
    /\ fix_result.raised = ""
    /\ ToSet(fix_result.value[1]) = ToSet(fix_result.value[2])

(***************************************************************************)
(* The expected error and violations of a distribution over the snapshots. *)
(***************************************************************************)
\* sum_i dist_i * values[i], computed term by term
WeightedSum(dist, values) ==
  <<SumTo([i \in 1..Len(values) |-> dist.num[i] * values[i]], Len(values)), dist.den>>
ViolationColumn(j) == [i \in Snapshots |-> train_violations[i][j]]
PointMass(k) == [den |-> 1, num |-> [i \in Snapshots |-> IF i = k THEN 1 ELSE 0]]
ExpectationOf(dist) ==
  _get_exp_error_rate_constraints(dist, train_errors, train_violations)

\* C21: _get_exp_error_rate_constraints returns sum_i d_i * error_i and, per
\* constraint j, sum_i d_i * violation_ij (so does cell 13 on cand_dist);
\* on the distribution with weight 1 on snapshot k it returns snapshot k's
\* error and violations, and on the uniform distribution the means of cell
\* 11, whose largest mean violation is the T-stochastic violation.
C21_ExpectedErrorAndViolations ==
  /\ cand_pc = "done" =>
       /\ RatEq(m_stoch.error, WeightedSum(cand_dist, train_errors))
       /\ Len(m_stoch.violations) = NumViolations
       /\ \A j \in 1..NumViolations :
            RatEq(m_stoch.violations[j], WeightedSum(cand_dist, ViolationColumn(j)))
  /\ NumSnapshots > 0 =>
       /\ \A k \in Snapshots :
            /\ RatEq(ExpectationOf(PointMass(k)).error, RatOfInt(train_errors[k]))
            /\ \A j \in 1..NumViolations :
                 RatEq(ExpectationOf(PointMass(k)).violations[j],
                       RatOfInt(train_violations[k][j]))
       /\ LET uniform == ExpectationOf(UniformDistribution(NumSnapshots))
          IN /\ RatEq(uniform.error, <<SumSeq(train_errors), NumSnapshots>>)
             /\ \A j \in 1..NumViolations :
                  RatEq(uniform.violations[j],
                        <<SumTo(ViolationColumn(j), NumSnapshots), NumSnapshots>>)
             /\ cand_pc \in {"cell12", "cell13", "done"} =>
                  /\ RatEq(uniform.error, t_stoch.error)
                  /\ RatEq(RatMaxTo(uniform.violations, NumViolations), t_stoch.violation)

\* Cell 13 has evaluated a distribution with fractional weights on snapshots
\* that differ in a violation, over two constraints.
C21_Witness ==
  /\ cand_pc = "done"
  /\ NumViolations = 2
  /\ \E i, k \in Support :
       /\ i # k
       /\ train_violations[i] # train_violations[k]
       /\ train_errors[i] # train_errors[k]

(***************************************************************************)
(* The order in which training_generator feeds the rows.                   *)
(***************************************************************************)
FedRows(history) == [k \in 1..Len(history) |-> history[k].rows]
SeededShuffle == <<random_seed(31337), num_rows>>

\* C22: in every call of training_generator the permutation is the one
\* shuffle drawn from the generator seeded with 31337, and every minibatch
\* of every loop reads its rows through that same permutation; so a later
\* call with the same num_rows, minibatch_size, num_iterations_per_loop and
\* num_loops feeds the same rows in the same order as the earlier call,
\* whatever state the `random` module was in before the call.
C22_SameOrderInEveryCall ==
  GeneratorStarted =>
    /\ SeededShuffle \in DOMAIN mersenne
    /\ permutation = mersenne[SeededShuffle]
    /\ permutation \in shuffle(num_rows)
    /\ random_state = after_shuffle(random_seed(31337))
    /\ \A k \in 1..Len(fed) :
         fed[k].rows = [p \in 1..Len(fed[k].indices) |->
                          permutation[fed[k].indices[p] + 1]]
    /\ \A c \in 1..Len(earlier_fed) :
         /\ IsPrefix(FedRows(fed), FedRows(earlier_fed[c]))
         /\ gen_pc = "done" => FedRows(fed) = FedRows(earlier_fed[c])

\* A second call has fed several minibatches through a permutation that is
\* not the identity, one of them wrapping around the end of the rows.
C22_Witness ==
  /\ gen_pc = "done"
  /\ Len(earlier_fed) = 1
  /\ Len(fed) > 1
  /\ permutation[1] # 0
  /\ \E k \in 1..Len(fed) : fed[k].indices[Len(fed[k].indices)] < fed[k].indices[1]

(***************************************************************************)
(* Properties of the recall example's ExampleProblem.                      *)
(***************************************************************************)
\* C23: for labels with a positive label and any predictions, the value of
\* ExampleProblem.proxy_constraints is at least the value of
\* ExampleProblem.constraints; so when the proxy constraint is satisfied
\* (<= 0) the true constraint is satisfied.
C23_ProxyUpperBound ==
  (eval_pc = "problem_done" /\ PositiveRows # {}) =>
    /\ RatLeq(eval_result.constraints, eval_result.proxy_constraints)
    /\ RatLeq(eval_result.proxy_constraints, Zero) => RatLeq(eval_result.constraints, Zero)

\* A positively labelled example is predicted above 1.0, where the cap at
\* 1.0 acts, another is not predicted positive, and the proxy constraint is
\* strictly above the true one.
C23_Witness ==
  /\ eval_pc = "problem_done"
  /\ \E i \in PositiveRows : eval_df[i].predictions > PredictionUnit
  /\ \E i \in PositiveRows : eval_df[i].predictions <= 0
  /\ RatLt(eval_result.constraints, eval_result.proxy_constraints)

(***************************************************************************)
(* The predicted-positive predicate of the fairness helpers.               *)
(***************************************************************************)
\* The rows of the group that are labelled positive, as a 0/1 subset column.
PositiveSubset(k) ==
  [i \in EvalRows |-> IF i \in GroupRows(k) \cap PositiveRows THEN 1 ELSE 0]
CountedTruePositive(i) == tpr(<<eval_df[i]>>)[1] = 1
CountedError(i) ==
  error_rate(<<eval_df[i].predictions>>, <<eval_df[i][LABEL_COLUMN]>>)[1] = 1

\* C24: error_rate, positive_prediction_rate and tpr use the same
\* predicted-positive predicate for every prediction, 0 included: a row tpr
\* counts as a true positive is not counted as an error by error_rate, and
\* the tpr of a protected group is positive_prediction_rate over the group's
\* positively labelled rows.
C24_OnePositivePredicate ==
  (eval_pc = "fairness_done" /\ eval_result.raised = "") =>
    /\ \A i \in EvalRows : CountedTruePositive(i) => ~CountedError(i)
    /\ \A k \in 1..Len(PROTECTED_COLUMNS) :
         LET rate == positive_prediction_rate(Column(eval_df, "predictions"),
                                              PositiveSubset(k))
         IN /\ rate.raised = ""
            /\ RatEq(tpr(Subset(eval_df, PROTECTED_COLUMNS[k])), rate.value)

\* C25: for labels with a positive label and any predictions, the bound
\* minus the recall the numpy helper reports is the value of
\* ExampleProblem.constraints: both are the number of rows with label 1 and
\* prediction > 0 over the number of positive labels.
C25_ReportedRecallIsConstrained ==
  (eval_pc = "problem_done" /\ PositiveRows # {}) =>
    /\ RatEq(RatSub(eval_bound, eval_result.recall), eval_result.constraints)
    /\ eval_result.recall[2] = Cardinality(PositiveRows)
    /\ eval_result.recall[1] =
         Cardinality({i \in EvalRows : eval_df[i].label = 1 /\ eval_df[i].predictions > 0})

\* A positively labelled example is predicted exactly 0, and the recall is
\* neither 0 nor 1.
C25_Witness ==
  /\ eval_pc = "problem_done"
  /\ \E i \in PositiveRows : eval_df[i].predictions = 0
  /\ 0 < eval_result.recall[1]
  /\ eval_result.recall[1] < eval_result.recall[2]

====
